---- MODULE Spec2Model ----
(***************************************************************************)
(* AuroraDB (src/auroradb.js): the replication engine of a peer-replicated *)
(* key-value store.  The module models the conflict resolver, the batch    *)
(* write of the local store, mergeRemoteData, the local mutations and the  *)
(* sync cycle of PeerStore / AuroraDB, the discovery manager, the channel  *)
(* table with the dispatch of inbound messages, the teardown, the adapter  *)
(* registry, the reconnection of the PeerJS transport, AuroraDB.create,    *)
(* the timers of the discovery adapters, merges that interleave at their   *)
(* awaits, the engine over a transport that reconnects, and destroy()      *)
(* during initializePeer.                                                  *)
(*                                                                         *)
(* A stored object {id, ...fields, _timestamp, _version} is modelled as a  *)
(* record [payload, ts, ver]: payload is the function from the object's    *)
(* own field names to their values, ts is _timestamp and ver is _version.  *)
(* The code reads both stamps as (x || 0), so a missing stamp and the      *)
(* stamp 0 are the same value 0 here.                                      *)
(***************************************************************************)
EXTENDS Integers, Sequences, FiniteSets, TLC

VARIABLES
    now,            \* Date.now(): the wall clock of the engine
    store,          \* store[r][k]: the object stored under key k at replica r
    syncStrategy,   \* PeerStore.syncStrategy
    before,         \* the store of replica A as it was before the first merge
    batch,          \* the remote batch handed to mergeRemoteData
    applied,        \* how many times mergeRemoteData(batch) has completed
    after1,         \* the store of replica A after the first merge
    lastResult,     \* the {updates, conflicts} the last mergeRemoteData returned
    lastConflicts,  \* the conflicts array of the last mergeRemoteData
    mergedAt,       \* the clock when the first mergeRemoteData(batch) began
    peerInit,       \* where PeerStore.initializePeer stands
    isConnected,    \* PeerStore.isConnected
    openConns,      \* the open connections of the transport
    syncTimer,      \* PeerStore.syncTimer is set (the auto-sync interval runs)
    lastSyncTime,   \* lastSyncTime[r]: PeerStore.lastSyncTime at replica r
    cycles,         \* the sync() calls that await their scan, oldest first
    finished,       \* the sync() call that completed in the last step
    lastOp,         \* the operation the last step ran
    events,         \* the events the last step dispatched on the store, in order
    broadcasts,     \* the net.broadcast calls of the last step, in order
    writeCount,     \* successful local writes to each key since it was created
    net,            \* net[r]: the messages on their way to replica r, oldest first
    trustedNetworks,\* SecureDiscoveryLayer.trustedNetworks
    hasKey,         \* SecureDiscoveryLayer.encryptionKey is set
    peerRegistry,   \* UniversalDiscoveryManager.peerRegistry
    stats,          \* UniversalDiscoveryManager.stats
    attempts,       \* attempts[p]: the connectToPeer(p) calls still awaited
    sighting,       \* the announcement the last step handled
    connectCalls,   \* the connectToPeer calls of the last step, in order
    adaptersUp,     \* the discovery adapters that are connected
    selected,       \* the methods the last start/stopDiscovery was to call
    adapterCalls,   \* the adapters the last start/stopDiscovery called, in order
    raised,         \* the last call raised (rejected) to its caller
    channels,       \* net.__channels__: the registrations, in array order
    regCount,       \* the net.channel calls that registered a table so far
    latest,         \* latest[h]: which of these calls last registered topic h
    inbound,        \* the message the last handleMessage was given, and from whom
    threw,          \* a handler has thrown since the engine was created
    invoked,        \* the functions the last handleMessage invoked, in order
    sent,           \* the peer.send calls of the last step, in order
    destroyPc,      \* where PeerStore.destroy stands
    teardown,       \* the steps of destroy() begun and ended so far, in order
    isOpen,         \* IDB.isOpen: the local store handle is held
    adapters,       \* p2pRegistry.adapters: the class under each stored name
    registryCall,   \* the last call on p2pRegistry, and how it ended
    reconnectAttempts, \* PeerJSAdapter.reconnectAttempts
    link,           \* the PeerJS peer: open (isConnected), disconnected, reconnecting
    timers,         \* the delays of the reconnection timers not yet fired
    awaiting,       \* the reconnection attempts that await 'open' or their timeout
    delays,         \* the delays scheduled since the last 'open', in order
    emitted,        \* the events the transport emitted in the last step, in order
    logged,         \* what the transport wrote with console.error in the last step
    transportOp,    \* what the transport did in the last step
    scheme,         \* AuroraDB.scheme: the normalized scheme of the database
    createPc,       \* where AuroraDB.create stands
    idbRequest,     \* the indexedDB.open request of IDB.open
    isReady,        \* AuroraDB.isReady
    connected,      \* AuroraDB.connected: the database is a distributed one
    syncInterval,   \* PeerStore.syncInterval
    autoSync,       \* PeerStore.autoSync
    dbEvents,       \* the events the last step dispatched on the AuroraDB object
    sourceConnected,\* the discovery adapters whose isConnected is true
    connectTimers,  \* the discovery adapters whose connect() timeout is pending
    discoveryIntervals, \* per discovery adapter, its setInterval timers running
    stopped,        \* the adapters disconnect() resolved for, with no connect() since
    sourceEvents,   \* the events the discovery adapters dispatched in their last step
    handlerLog,     \* what the sync channel's handlers logged in the last message
    runs,           \* per inbound sync message, where its mergeRemoteData stands
    connections     \* the peers the primary adapter holds an open connection to

mergeVars == <<before, batch, applied, after1, lastResult, lastConflicts, mergedAt>>
netVars == <<peerInit, isConnected, openConns, syncTimer>>
syncVars == <<lastSyncTime, cycles>>
outVars == <<lastOp, events, broadcasts, finished>>
engineVars == <<netVars, syncVars, outVars, writeCount>>
discVars == <<trustedNetworks, hasKey, peerRegistry, stats, attempts, sighting,
              connectCalls>>
adapterVars == <<adaptersUp, selected, adapterCalls, raised>>
chanVars == <<channels, regCount, latest, inbound, threw, invoked, sent>>
tearVars == <<destroyPc, teardown, isOpen>>
registryVars == <<adapters, registryCall>>
transportVars == <<reconnectAttempts, link, timers, awaiting, delays, emitted,
                   logged, transportOp>>
createVars == <<scheme, createPc, idbRequest, isReady, connected, syncInterval,
                autoSync, dbEvents>>
sourceVars == <<sourceConnected, connectTimers, discoveryIntervals, stopped,
                sourceEvents>>
raceVars == <<runs>>
restVars == <<registryVars, transportVars, createVars, sourceVars, handlerLog,
             raceVars, connections>>
extVars == <<discVars, adapterVars, chanVars, tearVars, restVars>>
vars == <<now, store, syncStrategy, extVars, mergeVars, engineVars, net>>

-----------------------------------------------------------------------------
(* Bounds *)

MaxTime == 3        \* the clock stops advancing here
MaxVer == 2         \* the largest _version of an input record
MaxWrites == 3      \* local writes counted per key
MaxCycles == 2      \* sync() calls awaiting their scan at one time
MaxPeers == 1       \* connections the transport may hold open
MaxQueue == 3       \* messages on their way to one replica
MaxSightings == 4   \* accepted discovery announcements
MaxPending == 2     \* connectToPeer calls awaited at one time, per peer
MaxChannels == 3    \* net.channel calls, the one of AuroraDB.create included
maxReconnectAttempts == 3   \* PeerJSAdapter.maxReconnectAttempts, as configured
MaxTimers == 3      \* reconnection timers not yet fired
MaxAwaiting == 2    \* reconnection attempts awaiting their outcome
MaxIntervals == 2   \* setInterval timers one discovery adapter has running

MaxAttempts == 3    \* attemptConnection: connectionAttempts >= 3
MinIdLength == 8    \* validatePeer: peerId.length > 8
reconnectDelay == 1000  \* PeerJSAdapter.reconnectDelay, in ms (the default)

Replicas == {"A", "B"}
Keys == {"a", "b", "c"}

Max(x, y) == IF x >= y THEN x ELSE y

-----------------------------------------------------------------------------
(* Objects *)

NoEntry == [none |-> TRUE]      \* what entries[key] yields for an absent key

PA == [name |-> "x"]
PB == [name |-> "y", role |-> "r"]
PC == [name |-> "z", constructor |-> "c"]

Reserved == {"__proto__", "constructor", "prototype"}

Strategies == {"timestamp", "version", "merge", "local-wins", "remote-wins"}
UnknownStrategy == "newest"

EmptyStore == [k \in Keys |-> NoEntry]

\* DataValidator.sanitize: a JSON round trip, then the three reserved names
\* are deleted from the copy.
Sanitize(p) == [f \in (DOMAIN p) \ Reserved |-> p[f]]

\* { ...l, ...r }: the fields of both, r's value where both have the field.
Spread(l, r) == [f \in (DOMAIN l) \cup (DOMAIN r) |->
                    IF f \in DOMAIN r THEN r[f] ELSE l[f]]

-----------------------------------------------------------------------------
(* ConflictResolver.resolveConflict.  The result is [obj, who]: who tells    *)
(* which object the function returned (the local one, the remote one or an  *)
(* object it built), since the caller compares the result with the local    *)
(* object by identity.                                                      *)

ResolveTimestampStrict(local, remote) ==
    IF local.ts > remote.ts THEN [obj |-> local, who |-> "local"]
                            ELSE [obj |-> remote, who |-> "remote"]

ResolveTimestamp(local, remote) ==
    IF local.ts >= remote.ts THEN [obj |-> local, who |-> "local"]
                             ELSE [obj |-> remote, who |-> "remote"]

ResolveVersion(local, remote) ==
    IF local.ver >= remote.ver THEN [obj |-> local, who |-> "local"]
                               ELSE [obj |-> remote, who |-> "remote"]

ResolveMergeNoBump(local, remote) ==
    [obj |-> [payload |-> Spread(local.payload, remote.payload),
              ts |-> Max(local.ts, remote.ts),
              ver |-> Max(local.ver, remote.ver)],
     who |-> "merged"]

ResolveMerge(local, remote) ==
    [obj |-> [payload |-> Spread(local.payload, remote.payload),
              ts |-> Max(local.ts, remote.ts),
              ver |-> Max(local.ver, remote.ver) + 1],
     who |-> "merged"]

ResolveLocalWinsSwapped(local, remote) == [obj |-> remote, who |-> "remote"]

ResolveLocalWins(local, remote) == [obj |-> local, who |-> "local"]

ResolveRemoteWins(local, remote) == [obj |-> remote, who |-> "remote"]

resolveConflictDefaultRemote(local, remote, strategy) ==
    CASE local = NoEntry          -> [obj |-> remote, who |-> "remote"]
      [] remote = NoEntry         -> [obj |-> local, who |-> "local"]
      [] strategy = "timestamp"   -> ResolveTimestamp(local, remote)
      [] strategy = "version"     -> ResolveVersion(local, remote)
      [] strategy = "merge"       -> ResolveMerge(local, remote)
      [] strategy = "local-wins"  -> ResolveLocalWins(local, remote)
      [] OTHER                    -> ResolveRemoteWins(local, remote)

resolveConflict(local, remote, strategy) ==
    CASE local = NoEntry          -> [obj |-> remote, who |-> "remote"]
      [] remote = NoEntry         -> [obj |-> local, who |-> "local"]
      [] strategy = "timestamp"   -> ResolveTimestamp(local, remote)
      [] strategy = "version"     -> ResolveVersion(local, remote)
      [] strategy = "merge"       -> ResolveMerge(local, remote)
      [] strategy = "local-wins"  -> ResolveLocalWins(local, remote)
      [] strategy = "remote-wins" -> ResolveRemoteWins(local, remote)
      [] OTHER                    -> [obj |-> local, who |-> "local"]

-----------------------------------------------------------------------------
(* IDBStore.batchSet: the entries are put one after the other in one        *)
(* transaction; each is sanitized and stamped with Date.now() and with its  *)
(* own _version plus one.  stamps[i] is the clock read for the i-th entry.  *)

Stamped(value, t) ==
    [payload |-> Sanitize(value.payload), ts |-> t, ver |-> value.ver + 1]

RECURSIVE batchSet(_, _, _)
batchSet(st, entries, stamps) ==
    IF entries = <<>> THEN st
    ELSE batchSet([st EXCEPT ![Head(entries).key] =
                        Stamped(Head(entries).value, Head(stamps))],
                  Tail(entries), Tail(stamps))

\* The clock readings of n consecutive puts that start at time t.
StampSeqs(t, n) ==
    {s \in [1..n -> t..MaxTime] : \A i \in 1..n : \A j \in i..n : s[i] <= s[j]}

-----------------------------------------------------------------------------
(* PeerStore.mergeRemoteData                                                *)

ObjOf(e) == [payload |-> e.payload, ts |-> e.ts, ver |-> e.ver]

\* One pass of the for loop: acc is [updates, conflicts].
RECURSIVE mergeLoop(_, _, _, _)
mergeLoop(st, remoteData, strategy, acc) ==
    IF remoteData = <<>> THEN acc
    ELSE LET remoteEntry == Head(remoteData)
             key == remoteEntry.key
             localEntry == st[key]
             resolved == resolveConflict(localEntry, ObjOf(remoteEntry), strategy)
             next ==
                IF localEntry = NoEntry
                THEN [acc EXCEPT !.updates =
                        Append(@, [key |-> key, value |-> ObjOf(remoteEntry)])]
                ELSE IF resolved.who # "local"
                THEN [updates |-> Append(acc.updates,
                                    [key |-> key, value |-> resolved.obj]),
                      conflicts |-> Append(acc.conflicts,
                                    [local |-> localEntry,
                                     remote |-> ObjOf(remoteEntry),
                                     resolved |-> resolved.obj])]
                ELSE acc
         IN mergeLoop(st, Tail(remoteData), strategy, next)

MergeStaged(st, remoteData, strategy) ==
    mergeLoop(st, remoteData, strategy, [updates |-> <<>>, conflicts |-> <<>>])

\* IDBStore.all(): the stored objects, in the order of their keys.
KeyOrder == <<"a", "b", "c">>

all(st) ==
    LET present == SelectSeq(KeyOrder, LAMBDA k : st[k] # NoEntry)
    IN [i \in 1..Len(present) |->
            [key |-> present[i], payload |-> st[present[i]].payload,
             ts |-> st[present[i]].ts, ver |-> st[present[i]].ver]]

\* The store after mergeRemoteData, its return value and its conflicts array.
mergeRemoteData(st, remoteData, strategy, stamps) ==
    LET staged == MergeStaged(st, remoteData, strategy)
    IN [store |-> batchSet(st, staged.updates, stamps),
        result |-> [updates |-> Len(staged.updates),
                    conflicts |-> Len(staged.conflicts)],
        conflicts |-> staged.conflicts]

-----------------------------------------------------------------------------
(* The discovery manager, the channel table and the teardown as             *)
(* AuroraDB.create leaves them.                                             *)

PeerIds == {"dht-peer-1", "mqtt-peer-22", "peer-3"}

\* peerId.length
Length(peerId) ==
    CASE peerId = "dht-peer-1" -> 10
      [] peerId = "mqtt-peer-22" -> 12
      [] peerId = "peer-3" -> 6

\* The discovery adapters, in the order registerDiscoveryAdapters set them.
AdapterOrder == <<"bittorrent-dht", "mqtt", "ipfs">>
DiscoveryMethods == {AdapterOrder[i] : i \in 1..Len(AdapterOrder)}

NoPeer == [none |-> TRUE]       \* what peerRegistry.get yields for an unknown peer
NoSighting == [none |-> TRUE]

ZeroStats ==
    [peersDiscovered |-> 0, connectionsAttempted |-> 0,
     connectionsSuccessful |-> 0, discoveryMethods |-> Len(AdapterOrder)]

DiscIdle ==
    /\ trustedNetworks = {}
    /\ hasKey = FALSE
    /\ peerRegistry = [p \in PeerIds |-> NoPeer]
    /\ stats = ZeroStats
    /\ attempts = [p \in PeerIds |-> 0]
    /\ sighting = NoSighting
    /\ connectCalls = <<>>

AdaptersIdle ==
    /\ adaptersUp = {}
    /\ selected = <<>>
    /\ adapterCalls = <<>>
    /\ raised = FALSE

\* The scheme's name: the topic of the channel AuroraDB.create registers.
SchemeName == "db"

\* A handler is the function a net.channel call put under a method name:
\* reg tells which call, does what the function does.
Handler(n, what) == [reg |-> n, does |-> what]

\* The handler table AuroraDB.create registers, the first net.channel call.
SyncChannel ==
    [header |-> SchemeName,
     methods |-> [m \in {"get", "post", "sync", "sync-request"} |-> Handler(1, m)]]

\* The topics a channel is registered for, and one that never is.
Headers == {SchemeName, "chat"}
NoMessage == [none |-> TRUE]

ChanIdle ==
    /\ channels = <<SyncChannel>>
    /\ regCount = 1
    /\ latest = [h \in Headers |-> IF h = SchemeName THEN 1 ELSE 0]
    /\ inbound = NoMessage
    /\ threw = FALSE
    /\ invoked = <<>>
    /\ sent = <<>>

TearIdle ==
    /\ destroyPc = "idle"
    /\ teardown = <<>>
    /\ isOpen = TRUE

\* What p2pRegistry can be handed as an adapter: a class, a function that
\* is not a constructor (an arrow function), an object, or nothing.
Class(n) == [kind |-> "class", name |-> n]
ArrowFunction == [kind |-> "arrow", name |-> "makeAdapter"]
PlainObject == [kind |-> "object", name |-> "settings"]
Undefined == [kind |-> "undefined", name |-> "undefined"]

\* registerDefaults: the registry as its constructor leaves it.  adapters is
\* the Map as the sequence of its entries, in insertion order.
registerDefaults ==
    << [name |-> "peerjs", adapterClass |-> Class("PeerJSAdapter")],
       [name |-> "webrtc", adapterClass |-> Class("WebRTCAdapter")],
       [name |-> "universal", adapterClass |-> Class("UniversalP2PAdapter")] >>

NoCall == [op |-> "none"]
NoError == [none |-> TRUE]

RegistryIdle ==
    /\ adapters = registerDefaults
    /\ registryCall = NoCall

\* The transport after connect() has resolved.
TransportIdle ==
    /\ reconnectAttempts = 0
    /\ link = "open"
    /\ timers = <<>>
    /\ awaiting = 0
    /\ delays = <<>>
    /\ emitted = <<>>
    /\ logged = <<>>
    /\ transportOp = "none"

DefaultSyncInterval == 30000    \* validateAndNormalizeScheme, PeerStore
DefaultScheme ==
    [p2pAdapter |-> "peerjs", autoSync |-> TRUE,
     syncInterval |-> DefaultSyncInterval]

\* AuroraDB after create(true) has resolved for the default scheme.
CreateIdle ==
    /\ scheme = DefaultScheme
    /\ createPc = "resolved"
    /\ idbRequest = "success"
    /\ isReady = TRUE
    /\ connected = TRUE
    /\ syncInterval = DefaultSyncInterval
    /\ autoSync = TRUE
    /\ dbEvents = <<>>

\* The discovery adapters that are followed from connect() to disconnect().
SourceMethods == {"bittorrent-dht", "mqtt"}

\* The discovery adapters as their constructors leave them.
SourceIdle ==
    /\ sourceConnected = {}
    /\ connectTimers = {}
    /\ discoveryIntervals = [m \in SourceMethods |-> 0]
    /\ stopped = {}
    /\ sourceEvents = <<>>

\* The inbound sync messages whose merges are followed, and a merge that has
\* not begun.
Runs == {1, 2}

NoRun == [pc |-> "idle", data |-> <<>>, rest |-> <<>>, updates |-> <<>>]

RaceIdle == runs = [r \in Runs |-> NoRun]

RestIdle ==
    /\ RegistryIdle
    /\ TransportIdle
    /\ CreateIdle
    /\ SourceIdle
    /\ handlerLog = <<>>
    /\ RaceIdle
    /\ connections = {}

ExtIdle == DiscIdle /\ AdaptersIdle /\ ChanIdle /\ TearIdle /\ RestIdle

-----------------------------------------------------------------------------
(* The engine's variables where a specification does not use them.         *)

NoCycle == [none |-> TRUE]

EngineIdle ==
    /\ peerInit = "done"
    /\ isConnected = TRUE
    /\ openConns = 0
    /\ syncTimer = FALSE
    /\ lastSyncTime = [r \in Replicas |-> 0]
    /\ cycles = <<>>
    /\ finished = NoCycle
    /\ lastOp = "none"
    /\ events = <<>>
    /\ broadcasts = <<>>
    /\ writeCount = [k \in Keys |-> 0]
    /\ net = [r \in Replicas |-> <<>>]
    /\ ExtIdle

MergeIdle ==
    /\ before = EmptyStore
    /\ batch = <<>>
    /\ applied = 0
    /\ after1 = EmptyStore
    /\ lastResult = [updates |-> 0, conflicts |-> 0]
    /\ lastConflicts = <<>>
    /\ mergedAt = 0

-----------------------------------------------------------------------------
(* MergeSpec: replica A holds a store, a remote batch arrives and is merged *)
(* once and then a second time, while the clock advances.                   *)

\* What a store holds: every write stamps a time and a version >= 1.
StoredObjs == [payload : {PB}, ts : 1..(MaxTime - 1), ver : 1..MaxVer]

\* What a peer may send: any stamps, also a timestamp ahead of the local clock.
RemoteEntries ==
    [key : {"a"}, payload : {PA, PC}, ts : 0..MaxTime, ver : 0..MaxVer]
    \cup [key : {"b"}, payload : {PC}, ts : {MaxTime - 1}, ver : {0, MaxVer}]
    \cup [key : {"a"}, payload : {PB}, ts : {1}, ver : {1}]

Batches ==
    {<<e>> : e \in RemoteEntries}
    \cup {<<e1, e2>> : e1 \in RemoteEntries, e2 \in RemoteEntries}

MergeInit ==
    /\ now = MaxTime - 1
    /\ \E o \in StoredObjs \cup {NoEntry} :
          store = [r \in Replicas |->
                     IF r = "A" THEN [EmptyStore EXCEPT !["a"] = o] ELSE EmptyStore]
    /\ syncStrategy \in Strategies \cup {UnknownStrategy}
    /\ batch \in Batches
    /\ before = store["A"]
    /\ applied = 0
    /\ after1 = store["A"]
    /\ lastResult = [updates |-> 0, conflicts |-> 0]
    /\ lastConflicts = <<>>
    /\ mergedAt = 0
    /\ EngineIdle

Tick ==
    /\ now < MaxTime
    /\ now' = now + 1
    /\ UNCHANGED <<store, syncStrategy, extVars, mergeVars, engineVars, net>>

\* A 'sync' or 'post' message carrying batch is handled: mergeRemoteData(batch).
MergeBatch ==
    /\ applied < 2
    /\ \E stamps \in StampSeqs(now,
                        Len(MergeStaged(store["A"], batch, syncStrategy).updates)) :
          LET m == mergeRemoteData(store["A"], batch, syncStrategy, stamps)
          IN /\ store' = [store EXCEPT !["A"] = m.store]
             /\ lastResult' = m.result
             /\ lastConflicts' = m.conflicts
             /\ after1' = IF applied = 0 THEN m.store ELSE after1
             /\ now' = IF stamps = <<>> THEN now ELSE stamps[Len(stamps)]
    /\ applied' = applied + 1
    /\ mergedAt' = IF applied = 0 THEN now ELSE mergedAt
    /\ UNCHANGED <<syncStrategy, extVars, before, batch, engineVars, net>>

MergeNext == MergeBatch \/ Tick

MergeSpec == MergeInit /\ [][MergeNext]_vars

-----------------------------------------------------------------------------
(* Properties of mergeRemoteData, checked under MergeSpec *)

DistinctKeys(b) == \A i \in 1..Len(b) : \A j \in 1..Len(b) : b[i].key = b[j].key => i = j

\* A batch of one record whose key replica A held before the merge.
SingleConflict ==
    /\ Len(batch) = 1
    /\ before[batch[1].key] # NoEntry

C3_NewerRemoteStoredAsIs ==
    (/\ applied = 1
     /\ syncStrategy = "timestamp"
     /\ SingleConflict
     /\ batch[1].ts > before[batch[1].key].ts)
    => /\ store["A"][batch[1].key].ts = batch[1].ts
       /\ store["A"][batch[1].key].ver = batch[1].ver
       /\ store["A"][batch[1].key].payload = Sanitize(batch[1].payload)
       /\ lastResult = [updates |-> 1, conflicts |-> 1]

\* C4: under version, a remote record of a strictly greater version is the
\* resolved record, and the stored version is then the remote version.
C4_HigherVersionStored ==
    (/\ applied = 1
     /\ syncStrategy = "version"
     /\ SingleConflict
     /\ batch[1].ver > before[batch[1].key].ver)
    => /\ Len(lastConflicts) = 1
       /\ lastConflicts[1].resolved = ObjOf(batch[1])
       /\ store["A"][batch[1].key].ver = batch[1].ver

\* C5: on a tie (equal timestamps under timestamp, equal versions under
\* version) the local record wins: the store is unchanged and the merge counts
\* neither an update nor a conflict.
C5_TieFavorsLocal ==
    (/\ applied = 1
     /\ SingleConflict
     /\ \/ syncStrategy = "timestamp" /\ batch[1].ts = before[batch[1].key].ts
        \/ syncStrategy = "version" /\ batch[1].ver = before[batch[1].key].ver)
    => /\ store["A"] = before
       /\ lastResult = [updates |-> 0, conflicts |-> 0]

\* A tie on the timestamp between records that differ in payload and version.
C5_Witness ==
    /\ applied = 1
    /\ SingleConflict
    /\ syncStrategy = "timestamp"
    /\ batch[1].ts = before[batch[1].key].ts
    /\ batch[1].payload # before[batch[1].key].payload
    /\ batch[1].ver > before[batch[1].key].ver

-----------------------------------------------------------------------------
(* The engine of replica A: local mutations (AuroraDB.add, AuroraDB.remove  *)
(* through the entries proxy) and the sync cycle (PeerStore.sync, called    *)
(* by hand or by the auto-sync interval).                                   *)

\* What the last step did: the operation, the events it dispatched, its
\* net.broadcast calls and the sync() call it completed.
Out(op, evs, calls, done) ==
    /\ lastOp' = op
    /\ events' = evs
    /\ broadcasts' = calls
    /\ finished' = done

\* The set trap of the entries proxy: the value is sanitized, stamped with
\* Date.now() and with its own _version plus one, and put.
entriesSet(st, key, value, t) ==
    [st EXCEPT ![key] =
        [payload |-> Sanitize(value.payload), ts |-> t, ver |-> value.ver + 1]]

addThenPost(k, p, v) ==
    /\ writeCount[k] < MaxWrites
    /\ store' = [store EXCEPT !["A"] =
                    entriesSet(@, k, [payload |-> p, ver |-> v], now)]
    /\ writeCount' = [writeCount EXCEPT ![k] = @ + 1]
    /\ Out("add", <<"change", "set">>,
           <<[method |-> "post", payload |-> all(store'["A"]),
              returned |-> IF isConnected THEN openConns ELSE 0]>>, NoCycle)
    /\ UNCHANGED <<now, syncStrategy, extVars, mergeVars, netVars, syncVars, net>>

\* AuroraDB.add(key, data): data carries the fields p and the _version v
\* (0 when it carries none).
add(k, p, v) ==
    /\ writeCount[k] < MaxWrites
    /\ store' = [store EXCEPT !["A"] =
                    entriesSet(@, k, [payload |-> p, ver |-> v], now)]
    /\ writeCount' = [writeCount EXCEPT ![k] = @ + 1]
    /\ Out("add", <<"change", "set">>, <<>>, NoCycle)
    /\ UNCHANGED <<now, syncStrategy, extVars, mergeVars, netVars, syncVars, net>>

\* The _version the data of a local write carries: none for a new object, the
\* stored one for an object that was read from the store and changed.
CarriedVersions(k) ==
    {0} \cup (IF store["A"][k] = NoEntry THEN {} ELSE {store["A"][k].ver})

Add == \E k \in {"a"} : \E p \in {PA, PC} : \E v \in CarriedVersions(k) : add(k, p, v)

\* AuroraDB.remove(key): the key is deleted when an object is stored under it.
remove(k) ==
    /\ IF store["A"][k] # NoEntry
       THEN /\ store' = [store EXCEPT !["A"][k] = NoEntry]
            /\ writeCount' = [writeCount EXCEPT ![k] = 0]
            /\ Out("remove", <<"change", "delete">>, <<>>, NoCycle)
       ELSE /\ UNCHANGED <<store, writeCount>>
            /\ Out("remove-absent", <<>>, <<>>, NoCycle)
    /\ UNCHANGED <<now, syncStrategy, extVars, mergeVars, netVars, syncVars, net>>

Remove == \E k \in {"a"} : remove(k)

\* PeerStore.initializePeer once peer.connect() has resolved.
InitializePeer ==
    /\ peerInit = "connecting"
    /\ peerInit' = "done"
    /\ isConnected' = TRUE
    /\ syncTimer' = TRUE
    /\ Out("connect", <<"open">>, <<>>, NoCycle)
    /\ UNCHANGED <<now, store, syncStrategy, extVars, mergeVars, openConns, syncVars,
                   writeCount, net>>

\* The transport opens a connection to a peer, or one of them closes.
ConnectionOpened ==
    /\ peerInit = "done"
    /\ openConns < MaxPeers
    /\ openConns' = openConns + 1
    /\ Out("connection", <<"connection">>, <<>>, NoCycle)
    /\ UNCHANGED <<now, store, syncStrategy, extVars, mergeVars, peerInit, isConnected,
                   syncTimer, syncVars, writeCount, net>>

ConnectionClosed ==
    /\ openConns > 0
    /\ openConns' = openConns - 1
    /\ Out("peer-disconnect", <<>>, <<>>, NoCycle)
    /\ UNCHANGED <<now, store, syncStrategy, extVars, mergeVars, peerInit, isConnected,
                   syncTimer, syncVars, writeCount, net>>

\* The transport's 'disconnect' event (setupPeerHandlers).
Disconnect ==
    /\ peerInit = "done"
    /\ isConnected
    /\ isConnected' = FALSE
    /\ Out("disconnect", <<"disconnect">>, <<>>, NoCycle)
    /\ UNCHANGED <<now, store, syncStrategy, extVars, mergeVars, peerInit, openConns,
                   syncTimer, syncVars, writeCount, net>>

\* PeerStore.sync up to its await: it throws when not connected, else it reads
\* the clock and starts the scan (this.all()).  The scan runs in a read-only
\* transaction, so it yields the store as it is now.  seenLast records
\* lastSyncTime as the call found it.
syncFrame ==
    UNCHANGED <<now, store, syncStrategy, mergeVars, netVars, lastSyncTime,
                writeCount, net, discVars, adaptersUp, selected, adapterCalls,
                chanVars, tearVars, registryVars, transportVars, scheme,
                createPc, idbRequest, isReady, connected, syncInterval, autoSync,
                sourceVars, handlerLog, raceVars, connections>>

syncBeginUnguarded(op) ==
    /\ cycles' = Append(cycles, [start |-> now, seenLast |-> lastSyncTime["A"],
                                 data |-> all(store["A"])])
    /\ Out(op, <<>>, <<>>, NoCycle)
    /\ raised' = FALSE
    /\ dbEvents' = <<>>
    /\ syncFrame

\* What throws is caught and logged by the interval's callback (op "timer");
\* AuroraDB.sync (op "sync") dispatches 'error' on the AuroraDB object and
\* rethrows.
syncBegin(op) ==
    /\ IF isConnected
       THEN cycles' = Append(cycles, [start |-> now, seenLast |-> lastSyncTime["A"],
                                      data |-> all(store["A"])])
       ELSE UNCHANGED cycles
    /\ Out(op, <<>>, <<>>, NoCycle)
    /\ raised' = (op = "sync" /\ ~isConnected)
    /\ dbEvents' = IF op = "sync" /\ ~isConnected THEN <<"error">> ELSE <<>>
    /\ syncFrame

\* AuroraDB.sync(): a manual call.  Before create() has set connected it
\* throws without calling PeerStore.sync.
SyncCall ==
    /\ Len(cycles) < MaxCycles
    /\ IF connected
       THEN syncBegin("sync")
       ELSE /\ Out("sync", <<>>, <<>>, NoCycle)
            /\ raised' = TRUE
            /\ dbEvents' = <<>>
            /\ UNCHANGED cycles
            /\ syncFrame

\* The auto-sync interval fires (startAutoSync): it calls sync() and catches.
TimerFire ==
    /\ syncTimer
    /\ Len(cycles) < MaxCycles
    /\ syncBegin("timer")

\* net.broadcast(header, method, data): 0 without a connected peer, else what
\* the transport's broadcast returns, the number of open connections.
netBroadcast(method, payload) ==
    [method |-> method, payload |-> payload,
     returned |-> IF peerInit = "done" /\ isConnected THEN openConns ELSE 0]

\* PeerStore.sync after its await: the two broadcasts, then lastSyncTime.
syncFinish(i) ==
    LET c == cycles[i]
    IN /\ lastSyncTime' = [lastSyncTime EXCEPT !["A"] = c.start]
       /\ cycles' = [j \in 1..(Len(cycles) - 1) |->
                        IF j < i THEN cycles[j] ELSE cycles[j + 1]]
       /\ Out("sync-done", <<"sync">>,
              <<netBroadcast("sync", [data |-> c.data, timestamp |-> c.start,
                                      lastSync |-> lastSyncTime["A"]]),
                netBroadcast("sync-request", [timestamp |-> c.start,
                                              lastSync |-> lastSyncTime["A"]])>>,
              [start |-> c.start, seenLast |-> c.seenLast])
       /\ UNCHANGED <<now, store, syncStrategy, extVars, mergeVars, netVars, writeCount, net>>

\* The scans are separate read-only transactions: any of them may end first.
SyncFinish == \E i \in 1..Len(cycles) : syncFinish(i)

\* AuroraDB.post(): the whole collection is broadcast as 'post'.
Post ==
    /\ Out("post", <<>>, <<netBroadcast("post", all(store["A"]))>>, NoCycle)
    /\ UNCHANGED <<now, store, syncStrategy, extVars, mergeVars, netVars, syncVars,
                   writeCount, net>>

\* AuroraDB.fetch(): 'get' is broadcast, without data.
Fetch ==
    /\ Out("fetch", <<>>, <<netBroadcast("get", <<>>)>>, NoCycle)
    /\ UNCHANGED <<now, store, syncStrategy, extVars, mergeVars, netVars, syncVars,
                   writeCount, net>>

\* The engine after AuroraDB.create(true): the store is open and empty, the
\* transport is still connecting.
EngineInit ==
    /\ syncStrategy = "timestamp"
    /\ MergeIdle
    /\ peerInit = "connecting"
    /\ isConnected = FALSE
    /\ openConns = 0
    /\ syncTimer = FALSE
    /\ lastSyncTime = [r \in Replicas |-> 0]
    /\ cycles = <<>>
    /\ finished = NoCycle
    /\ lastOp = "none"
    /\ events = <<>>
    /\ broadcasts = <<>>
    /\ writeCount = [k \in Keys |-> 0]
    /\ net = [r \in Replicas |-> <<>>]

-----------------------------------------------------------------------------
(* Spec: local mutations at replica A, with post and fetch.                 *)

Init ==
    /\ now = 1
    /\ EngineInit
    /\ ExtIdle
    /\ store = [r \in Replicas |-> EmptyStore]

Next ==
    \/ Add
    \/ Remove
    \/ InitializePeer
    \/ ConnectionOpened
    \/ ConnectionClosed
    \/ Disconnect
    \/ Post
    \/ Fetch
    \/ Tick

Spec == Init /\ [][Next]_vars

\* C1: the stored _version of a key equals the number of successful local
\* writes to it (so it increases by one with each write).
C1_VersionCountsWrites ==
    \A k \in Keys :
        store["A"][k] # NoEntry => store["A"][k].ver = writeCount[k]

\* C9: a step that is a local put or delete issues no net.broadcast call and
\* leaves the connection state, lastSyncTime and the sync cycles as they were;
\* a put dispatches change then set, a delete change then delete.
C9_LocalWriteStaysLocal ==
    [][lastOp' \in {"add", "remove"}
        => /\ broadcasts' = <<>>
           /\ UNCHANGED <<netVars, syncVars, net>>
           /\ lastOp' = "add" => events' = <<"change", "set">>
           /\ lastOp' = "remove" => events' = <<"change", "delete">>]_vars

\* A key is deleted on an engine that is connected and holds an open
\* connection, after it was written twice.
C9_Witness ==
    /\ lastOp = "remove"
    /\ events = <<"change", "delete">>
    /\ isConnected
    /\ openConns > 0
    /\ now > 1

-----------------------------------------------------------------------------
(* SyncSpec: the sync cycles of replica A over a store that holds one       *)
(* object; sync() is called by hand and by the auto-sync interval.          *)

SyncInit ==
    /\ now = 1
    /\ EngineInit
    /\ ExtIdle
    /\ store = [r \in Replicas |->
                  IF r = "A"
                  THEN [EmptyStore EXCEPT !["a"] = [payload |-> PA, ts |-> 1, ver |-> 1]]
                  ELSE EmptyStore]

SyncNext ==
    \/ InitializePeer
    \/ ConnectionOpened
    \/ ConnectionClosed
    \/ Disconnect
    \/ SyncCall
    \/ TimerFire
    \/ SyncFinish
    \/ Tick

SyncSpec == SyncInit /\ [][SyncNext]_vars

\* C7: at most one sync cycle is in flight: a sync() call made while an
\* earlier one awaits its scan starts no scan of its own.
C7_OneCycleInFlight == Len(cycles) <= 1

\* C8: a cycle that has issued its two broadcasts ('sync', then
\* 'sync-request') has set lastSyncTime to its start time, whatever the
\* broadcasts returned, and both carry timestamp = its start time and
\* lastSync = the value lastSyncTime had when the cycle began.
C8_CycleStampsItsStart ==
    lastOp = "sync-done"
    => /\ lastSyncTime["A"] = finished.start
       /\ Len(broadcasts) = 2
       /\ broadcasts[1].method = "sync"
       /\ broadcasts[2].method = "sync-request"
       /\ \A i \in 1..2 :
             /\ broadcasts[i].payload.timestamp = finished.start
             /\ broadcasts[i].payload.lastSync = finished.seenLast

-----------------------------------------------------------------------------
(* ReplSpec: replicas A and B, connected to each other, strategy timestamp, *)
(* no local write after the start.  Each runs sync cycles; the channel      *)
(* handlers 'sync' and 'sync-request' (AuroraDB.create) handle what the     *)
(* other has sent.                                                          *)

Other(r) == IF r = "A" THEN "B" ELSE "A"

filteredDataInclusive(ourData, lastSync) ==
    IF lastSync # 0 THEN SelectSeq(ourData, LAMBDA e : e.ts >= lastSync) ELSE ourData

\* The 'sync-request' handler's filter: everything when lastSync is 0 (falsy),
\* else the objects stamped after lastSync.
filteredData(ourData, lastSync) ==
    IF lastSync # 0 THEN SelectSeq(ourData, LAMBDA e : e.ts > lastSync) ELSE ourData

\* The messages on their way to r, and the answers to come to the
\* 'sync-request's on their way to the other replica.
Pending(r) ==
    Len(net[r]) + Len(SelectSeq(net[Other(r)], LAMBDA m : m.method = "sync-request"))

\* PeerStore.sync at replica r, its scan done: 'sync' and 'sync-request' are
\* handed to the connection to the other replica, then lastSyncTime is set.
ReplSync(r) ==
    /\ Pending(Other(r)) + 2 <= MaxQueue
    /\ Pending(r) + 1 <= MaxQueue
    /\ net' = [net EXCEPT ![Other(r)] =
                @ \o <<[method |-> "sync", data |-> all(store[r])],
                       [method |-> "sync-request", lastSync |-> lastSyncTime[r]]>>]
    /\ lastSyncTime' = [lastSyncTime EXCEPT ![r] = now]
    /\ UNCHANGED <<now, store, syncStrategy, extVars, mergeVars, netVars, cycles, outVars,
                   writeCount>>

\* PeerStore.handleMessage at replica r for the oldest message on its way:
\* 'sync' merges the data, 'sync-request' answers 'sync' with the filtered scan.
ReplDeliver(r) ==
    /\ net[r] # <<>>
    /\ LET msg == Head(net[r])
       IN IF msg.method = "sync"
          THEN \E stamps \in StampSeqs(now,
                        Len(MergeStaged(store[r], msg.data, syncStrategy).updates)) :
                  /\ store' = [store EXCEPT ![r] =
                        mergeRemoteData(@, msg.data, syncStrategy, stamps).store]
                  /\ now' = IF stamps = <<>> THEN now ELSE stamps[Len(stamps)]
                  /\ net' = [net EXCEPT ![r] = Tail(@)]
          ELSE /\ net' = [net EXCEPT
                            ![r] = Tail(@),
                            ![Other(r)] = Append(@,
                                [method |-> "sync",
                                 data |-> filteredData(all(store[r]), msg.lastSync)])]
               /\ UNCHANGED <<now, store>>
    /\ UNCHANGED <<syncStrategy, extVars, mergeVars, netVars, syncVars, outVars, writeCount>>

ReplInit ==
    /\ now = 2
    /\ EngineInit
    /\ ExtIdle
    /\ \E oa \in {NoEntry} \cup [payload : {PA}, ts : {1}, ver : {1}] :
       \E ob \in {NoEntry} \cup [payload : {PB}, ts : {2}, ver : {1}] :
          store = [r \in Replicas |->
                     [EmptyStore EXCEPT !["a"] = IF r = "A" THEN oa ELSE ob]]

SyncA == ReplSync("A")
SyncB == ReplSync("B")
DeliverA == ReplDeliver("A")
DeliverB == ReplDeliver("B")

ReplNext == SyncA \/ SyncB \/ DeliverA \/ DeliverB \/ Tick

ReplSpec == ReplInit /\ [][ReplNext]_vars

\* The auto-sync interval of each replica keeps calling sync(), the transport
\* delivers what is sent, and the clock runs.
FairReplSpec ==
    /\ ReplSpec
    /\ WF_vars(SyncA) /\ WF_vars(SyncB)
    /\ WF_vars(DeliverA) /\ WF_vars(DeliverB)
    /\ WF_vars(Tick)

Converged == store["A"] = store["B"]

\* A merge of what the other replica holds would report updates: 0.
Quiet ==
    \A r \in Replicas :
        MergeStaged(store[r], all(store[Other(r)]), syncStrategy).updates = <<>>

\* C10: the exchange of sync cycles reaches a state from which on both
\* replicas store the same record for every key and every merge reports
\* updates: 0.
C10_EventuallyConsistent == <>[](Converged /\ Quiet)

-----------------------------------------------------------------------------
(* DiscSpec: the UniversalDiscoveryManager of replica A.  Adapters announce *)
(* peers, connection attempts resolve, discovery is started and stopped.    *)

validatePeerAnyNetwork(peerId, discoveryMethod) ==
    Length(peerId) > MinIdLength

\* SecureDiscoveryLayer.validatePeer: a peerId longer than 8 characters,
\* announced over a trusted network.
validatePeer(peerId, discoveryMethod) ==
    Length(peerId) > MinIdLength /\ discoveryMethod \in trustedNetworks

\* The connections of the UniversalP2PAdapter itself (P2PAdapter.connections):
\* its primary adapter holds the connections, this map stays empty.
PeerConnections == {}

registerRepeatAlwaysPush(reg, discoveryMethod, peerId, t) ==
    IF reg[peerId] = NoPeer
    THEN [reg EXCEPT ![peerId] =
            [discoveryMethods |-> <<discoveryMethod>>, firstSeen |-> t,
             lastSeen |-> 0, connectionAttempts |-> 0, connected |-> FALSE]]
    ELSE [reg EXCEPT ![peerId].discoveryMethods = Append(@, discoveryMethod),
                     ![peerId].lastSeen = t]

\* handlePeerDiscovery, the registry: the first sighting sets the descriptor
\* (lastSeen is left unset, 0 here), a repeat pushes the method when the
\* list does not include it and sets lastSeen.
registerSighting(reg, discoveryMethod, peerId, t) ==
    IF reg[peerId] = NoPeer
    THEN [reg EXCEPT ![peerId] =
            [discoveryMethods |-> <<discoveryMethod>>, firstSeen |-> t,
             lastSeen |-> 0, connectionAttempts |-> 0, connected |-> FALSE]]
    ELSE [reg EXCEPT
            ![peerId].discoveryMethods =
                IF \E i \in 1..Len(@) : @[i] = discoveryMethod
                THEN @ ELSE Append(@, discoveryMethod),
            ![peerId].lastSeen = t]

attemptConnectionUncounted(reg, st, pending, peerId) ==
    IF reg[peerId].connectionAttempts >= MaxAttempts
    THEN [registry |-> reg, stats |-> st, attempts |-> pending, calls |-> <<>>]
    ELSE [registry |-> [reg EXCEPT ![peerId].connectionAttempts = @ + 1],
          stats |-> st,
          attempts |-> [pending EXCEPT ![peerId] = @ + 1],
          calls |-> <<peerId>>]

attemptConnectionUncapped(reg, st, pending, peerId) ==
    [registry |-> [reg EXCEPT ![peerId].connectionAttempts = @ + 1],
     stats |-> [st EXCEPT !.connectionsAttempted = @ + 1],
     attempts |-> [pending EXCEPT ![peerId] = @ + 1],
     calls |-> <<peerId>>]

\* attemptConnection up to its await: nothing at 3 attempts, else the
\* counters are incremented and peer.connectToPeer(peerId) is called.
attemptConnection(reg, st, pending, peerId) ==
    IF reg[peerId].connectionAttempts >= MaxAttempts
    THEN [registry |-> reg, stats |-> st, attempts |-> pending, calls |-> <<>>]
    ELSE [registry |-> [reg EXCEPT ![peerId].connectionAttempts = @ + 1],
          stats |-> [st EXCEPT !.connectionsAttempted = @ + 1],
          attempts |-> [pending EXCEPT ![peerId] = @ + 1],
          calls |-> <<peerId>>]

\* handlePeerDiscovery(discoveryMethod, peerInfo): peerInfo carries peerId,
\* is encrypted or not, and decrypts or not.  What follows the await of the
\* decryption runs without a further await.
handlePeerDiscovery(discoveryMethod, peerId, encrypted, decrypts) ==
    /\ sighting' = [method |-> discoveryMethod, peerId |-> peerId]
    /\ IF ~validatePeer(peerId, discoveryMethod)
       THEN /\ Out("discovery-rejected", <<>>, <<>>, NoCycle)
            /\ connectCalls' = <<>>
            /\ UNCHANGED <<peerRegistry, stats, attempts>>
       ELSE IF encrypted /\ hasKey /\ ~decrypts
       THEN /\ Out("discovery-undecrypted", <<>>, <<>>, NoCycle)
            /\ connectCalls' = <<>>
            /\ UNCHANGED <<peerRegistry, stats, attempts>>
       ELSE LET st1 == [stats EXCEPT !.peersDiscovered = @ + 1]
                reg1 == registerSighting(peerRegistry, discoveryMethod, peerId, now)
                a == IF peerId \notin PeerConnections
                     THEN attemptConnection(reg1, st1, attempts, peerId)
                     ELSE [registry |-> reg1, stats |-> st1,
                           attempts |-> attempts, calls |-> <<>>]
            IN /\ stats.peersDiscovered < MaxSightings
               /\ \A p \in PeerIds : a.attempts[p] <= MaxPending
               /\ peerRegistry' = a.registry
               /\ stats' = a.stats
               /\ attempts' = a.attempts
               /\ connectCalls' = a.calls
               /\ Out("discovered", <<"peer-discovered">>, <<>>, NoCycle)
    /\ UNCHANGED <<now, store, syncStrategy, mergeVars, netVars, syncVars,
                   writeCount, net, trustedNetworks, hasKey, adapterVars,
                   chanVars, tearVars, registryVars, transportVars, createVars,
                   handlerLog, raceVars, connections>>

\* What the adapters announce: a peer over two trusted networks and over an
\* untrusted one, a second peer over its own network, and a short peerId.
Announcements ==
    {<<"bittorrent-dht", "dht-peer-1">>, <<"mqtt", "dht-peer-1">>,
     <<"ipfs", "dht-peer-1">>, <<"mqtt", "mqtt-peer-22">>,
     <<"bittorrent-dht", "peer-3">>}

\* An adapter dispatches 'peer-discovered'.
PeerDiscovered ==
    \E a \in Announcements : \E enc \in BOOLEAN : \E ok \in BOOLEAN :
        /\ (~enc => ok)
        /\ handlePeerDiscovery(a[1], a[2], enc, ok)
        /\ UNCHANGED sourceVars

\* attemptConnection after its await.  connectToPeer yields a connection,
\* which the primary adapter has put into its connections on 'open'; or
\* none, and tryFallbackConnection follows, where Math.random() decides
\* whether one of its methods connects (connectionMethod, which nothing
\* reads, is left out of the descriptor); or it rejects, which is caught.
AttemptResolved ==
    \E p \in PeerIds :
    \E outcome \in {"connection", "fallback", "nothing", "rejected"} :
        /\ attempts[p] > 0
        /\ attempts' = [attempts EXCEPT ![p] = @ - 1]
        /\ IF outcome \in {"connection", "fallback"}
           THEN /\ peerRegistry' = [peerRegistry EXCEPT ![p].connected = TRUE]
                /\ stats' = [stats EXCEPT !.connectionsSuccessful = @ + 1]
                /\ Out("attempt-resolved", <<"peer-connected">>, <<>>, NoCycle)
           ELSE /\ UNCHANGED <<peerRegistry, stats>>
                /\ Out("attempt-resolved", <<>>, <<>>, NoCycle)
        /\ connections' = IF outcome = "connection"
                          THEN connections \cup {p} ELSE connections
        /\ connectCalls' = <<>>
        /\ sighting' = NoSighting
        /\ UNCHANGED <<now, store, syncStrategy, mergeVars, netVars, syncVars,
                       writeCount, net, trustedNetworks, hasKey, adapterVars,
                       chanVars, tearVars, registryVars, transportVars,
                       createVars, sourceVars, handlerLog, raceVars>>

\* getDiscoveryStats(): startTime is never set, so uptime is 0.
getDiscoveryStats ==
    [peersDiscovered |-> stats.peersDiscovered,
     connectionsAttempted |-> stats.connectionsAttempted,
     connectionsSuccessful |-> stats.connectionsSuccessful,
     discoveryMethods |-> stats.discoveryMethods,
     activeMethods |-> AdapterOrder,
     discoveredPeers |-> Cardinality({p \in PeerIds : peerRegistry[p] # NoPeer}),
     connectedPeers |-> Cardinality({p \in PeerIds :
                            peerRegistry[p] # NoPeer /\ peerRegistry[p].connected}),
     peerSources |-> [m \in DiscoveryMethods |->
                        Cardinality({p \in PeerIds :
                            /\ peerRegistry[p] # NoPeer
                            /\ \E i \in 1..Len(peerRegistry[p].discoveryMethods) :
                                  peerRegistry[p].discoveryMethods[i] = m})],
     uptime |-> 0]

\* What a start or a stop has done so far: the adapters it called, the
\* adapters that are connected, and whether it has raised.
Started(calls, up) == [calls |-> calls, up |-> up, raised |-> FALSE]

RECURSIVE connectEachAbort(_, _, _)
connectEachAbort(todo, failing, acc) ==
    IF todo = <<>> THEN acc
    ELSE IF Head(todo) \notin DiscoveryMethods
    THEN connectEachAbort(Tail(todo), failing, acc)
    ELSE IF Head(todo) \in failing
    THEN [calls |-> Append(acc.calls, Head(todo)), up |-> acc.up, raised |-> TRUE]
    ELSE connectEachAbort(Tail(todo), failing,
            Started(Append(acc.calls, Head(todo)), acc.up \cup {Head(todo)}))

\* startDiscovery, the map over adaptersToStart: a name without an adapter is
\* skipped; connect() is called on each adapter, and one that fails (it is in
\* failing) is caught and logged.
RECURSIVE connectEach(_, _, _)
connectEach(todo, failing, acc) ==
    IF todo = <<>> THEN acc
    ELSE IF Head(todo) \notin DiscoveryMethods
    THEN connectEach(Tail(todo), failing, acc)
    ELSE connectEach(Tail(todo), failing,
            Started(Append(acc.calls, Head(todo)),
                    IF Head(todo) \in failing
                    THEN acc.up ELSE acc.up \cup {Head(todo)}))

RECURSIVE disconnectEachAbort(_, _, _)
disconnectEachAbort(todo, failing, acc) ==
    IF todo = <<>> THEN acc
    ELSE IF Head(todo) \in failing
    THEN [calls |-> Append(acc.calls, Head(todo)), up |-> acc.up, raised |-> TRUE]
    ELSE disconnectEachAbort(Tail(todo), failing,
            Started(Append(acc.calls, Head(todo)), acc.up \ {Head(todo)}))

\* stopDiscovery, the loop over discoveryAdapters: disconnect() is awaited on
\* each adapter in turn, and one that fails is caught and logged.
RECURSIVE disconnectEach(_, _, _)
disconnectEach(todo, failing, acc) ==
    IF todo = <<>> THEN acc
    ELSE disconnectEach(Tail(todo), failing,
            Started(Append(acc.calls, Head(todo)),
                    IF Head(todo) \in failing
                    THEN acc.up ELSE acc.up \ {Head(todo)}))

\* The methods argument of startDiscovery: 'all', or names, known or not.
StartArgs ==
    {<<"all">>}
    \cup {<<m>> : m \in DiscoveryMethods \cup {"tor"}}
    \cup {<<m1, m2>> : m1 \in DiscoveryMethods, m2 \in DiscoveryMethods \cup {"tor"}}

adaptersToStart(methods) ==
    IF \E i \in 1..Len(methods) : methods[i] = "all" THEN AdapterOrder ELSE methods

\* startDiscovery(methods), where the connect() of the adapters in failing
\* fails.
StartDiscovery ==
    \E methods \in StartArgs : \E failing \in SUBSET DiscoveryMethods :
        LET r == connectEach(adaptersToStart(methods), failing,
                             Started(<<>>, adaptersUp))
        IN /\ selected' = adaptersToStart(methods)
           /\ adapterCalls' = r.calls
           /\ adaptersUp' = r.up
           /\ raised' = r.raised
           /\ Out("start-discovery", <<>>, <<>>, NoCycle)
           /\ UNCHANGED <<now, store, syncStrategy, mergeVars, netVars, syncVars,
                          writeCount, net, discVars, chanVars, tearVars, restVars>>

\* stopDiscovery(), where the disconnect() of the adapters in failing fails.
StopDiscovery ==
    \E failing \in SUBSET DiscoveryMethods :
        LET r == disconnectEach(AdapterOrder, failing, Started(<<>>, adaptersUp))
        IN /\ selected' = AdapterOrder
           /\ adapterCalls' = r.calls
           /\ adaptersUp' = r.up
           /\ raised' = r.raised
           /\ Out("stop-discovery", <<>>, <<>>, NoCycle)
           /\ UNCHANGED <<now, store, syncStrategy, mergeVars, netVars, syncVars,
                          writeCount, net, discVars, chanVars, tearVars, restVars>>

\* The security configuration: the trusted networks, and a passphrase or none.
TrustConfigs == {{}, {"bittorrent-dht", "mqtt"}}

DiscInit ==
    /\ now = MaxTime - 1
    /\ EngineInit
    /\ store = [r \in Replicas |-> EmptyStore]
    /\ trustedNetworks \in TrustConfigs
    /\ hasKey \in BOOLEAN
    /\ peerRegistry = [p \in PeerIds |-> NoPeer]
    /\ stats = ZeroStats
    /\ attempts = [p \in PeerIds |-> 0]
    /\ sighting = NoSighting
    /\ connectCalls = <<>>
    /\ adaptersUp = {}
    /\ selected = <<>>
    /\ adapterCalls = <<>>
    /\ raised = FALSE
    /\ ChanIdle
    /\ TearIdle
    /\ RestIdle

DiscNext ==
    \/ PeerDiscovered
    \/ AttemptResolved
    \/ Tick

DiscSpec == DiscInit /\ [][DiscNext]_vars

\* AdapterSpec: discovery is started and stopped, adapters fail or not.
AdapterNext ==
    \/ StartDiscovery
    \/ StopDiscovery

AdapterSpec == DiscInit /\ [][AdapterNext]_vars

-----------------------------------------------------------------------------
(* The claims about discovery.                                              *)

Known(reg, p) == reg[p] # NoPeer

\* The step handles an announcement (the clock's step handles none), and
\* the announcement names peer p.
Handled(op) == now' = now /\ lastOp' = op

Sighted(p) == now' = now /\ sighting' # NoSighting /\ sighting'.peerId = p

NoDuplicates(seq) ==
    \A i \in 1..Len(seq) : \A j \in 1..Len(seq) : seq[i] = seq[j] => i = j

IsPrefix(s1, s2) ==
    Len(s1) <= Len(s2) /\ \A i \in 1..Len(s1) : s1[i] = s2[i]

\* C11: no peer descriptor ever has connectionAttempts above 3, and once a
\* peer's connectionAttempts is 3 it stays 3 and a discovery event for that
\* peer starts no attempt: no connectToPeer call, no fallback (no awaited
\* attempt is added, no peer-connected event), connectionsAttempted unchanged.
C11_AttemptsCapped ==
    [][\A p \in PeerIds :
        /\ Known(peerRegistry', p) => peerRegistry'[p].connectionAttempts <= 3
        /\ (Known(peerRegistry, p) /\ peerRegistry[p].connectionAttempts = 3)
            => /\ Known(peerRegistry', p)
               /\ peerRegistry'[p].connectionAttempts = 3
               /\ Sighted(p) =>
                    /\ connectCalls' = <<>>
                    /\ attempts' = attempts
                    /\ stats'.connectionsAttempted = stats.connectionsAttempted
                    /\ stats'.connectionsSuccessful = stats.connectionsSuccessful
                    /\ \A i \in 1..Len(events') : events'[i] # "peer-connected"]_vars

\* An accepted announcement for a peer that already had its three attempts.
C11_Witness ==
    /\ lastOp = "discovered"
    /\ sighting # NoSighting
    /\ Known(peerRegistry, sighting.peerId)
    /\ peerRegistry[sighting.peerId].connectionAttempts = 3
    /\ stats.peersDiscovered = 4
    /\ connectCalls = <<>>

\* C12: the first accepted sighting of a peerId creates its descriptor; a
\* repeat sighting adds the method to discoveryMethods when it is not there
\* (the list never holds a method twice and never loses one) and sets
\* lastSeen; a descriptor is never removed, and no step changes its firstSeen
\* or lowers its connectionAttempts.
C12_DiscoveryDeduplicates ==
    [][\A p \in PeerIds :
        /\ Known(peerRegistry', p) => NoDuplicates(peerRegistry'[p].discoveryMethods)
        /\ (~Known(peerRegistry, p) /\ Known(peerRegistry', p))
            => /\ Handled("discovered") /\ Sighted(p)
               /\ peerRegistry'[p].discoveryMethods = <<sighting'.method>>
               /\ peerRegistry'[p].firstSeen = now
        /\ Known(peerRegistry, p)
            => /\ Known(peerRegistry', p)
               /\ peerRegistry'[p].firstSeen = peerRegistry[p].firstSeen
               /\ peerRegistry'[p].connectionAttempts
                     >= peerRegistry[p].connectionAttempts
               /\ IsPrefix(peerRegistry[p].discoveryMethods,
                           peerRegistry'[p].discoveryMethods)
               /\ (Handled("discovered") /\ Sighted(p))
                    => /\ peerRegistry'[p].lastSeen = now
                       /\ \E i \in 1..Len(peerRegistry'[p].discoveryMethods) :
                             peerRegistry'[p].discoveryMethods[i] = sighting'.method
                       /\ Len(peerRegistry'[p].discoveryMethods)
                             <= Len(peerRegistry[p].discoveryMethods) + 1]_vars

\* A peer seen over two networks, then once more over the first of them, at
\* a later time than its first sighting; a second peer is registered too.
C12_Witness ==
    /\ lastOp = "discovered"
    /\ Known(peerRegistry, sighting.peerId)
    /\ Len(peerRegistry[sighting.peerId].discoveryMethods) = 2
    /\ peerRegistry[sighting.peerId].discoveryMethods[1] = sighting.method
    /\ peerRegistry[sighting.peerId].lastSeen > peerRegistry[sighting.peerId].firstSeen
    /\ stats.peersDiscovered >= 4
    /\ \E q \in PeerIds : q # sighting.peerId /\ Known(peerRegistry, q)

\* C13: an announcement the security layer rejects dispatches no event, calls
\* no connectToPeer, leaves the registry, peersDiscovered and the attempts as
\* they were, and increments a count that getDiscoveryStats() shows.
C13_RejectedIsCounted ==
    [][(Handled("discovery-rejected") \/ Handled("discovery-undecrypted"))
        => /\ events' = <<>>
           /\ connectCalls' = <<>>
           /\ UNCHANGED <<peerRegistry, attempts>>
           /\ stats'.peersDiscovered = stats.peersDiscovered
           /\ getDiscoveryStats' # getDiscoveryStats]_vars

-----------------------------------------------------------------------------
(* The claim about startDiscovery and stopDiscovery.                        *)

\* C14: startDiscovery calls connect() on every selected adapter and
\* stopDiscovery calls disconnect() on every adapter, whichever of the calls
\* fail, and neither raises.
C14_AdapterFailuresIsolated ==
    lastOp \in {"start-discovery", "stop-discovery"}
        => /\ raised = FALSE
           /\ adapterCalls = SelectSeq(selected, LAMBDA m : m \in DiscoveryMethods)

\* startDiscovery(['all']) where the first adapter's connect() failed and the
\* third one's did not.
C14_Witness ==
    /\ lastOp = "start-discovery"
    /\ adapterCalls = AdapterOrder
    /\ adapterCalls[1] \notin adaptersUp
    /\ adapterCalls[3] \in adaptersUp
    /\ raised = FALSE

-----------------------------------------------------------------------------
(* ChanSpec: channel tables are registered with net.channel, and inbound    *)
(* messages are dispatched by PeerStore.handleMessage at replica A.         *)

NoChannel == [none |-> TRUE]    \* what __channels__.find yields without a match
NoHandler == [none |-> TRUE]    \* what methods[name] yields for no property

\* The functions every object literal inherits from Object.prototype that
\* leave the object and their arguments as they are.
InheritedFunctions == {"toString", "valueOf", "hasOwnProperty", "constructor"}

\* The tables a caller registers with its n-th net.channel call: one whose
\* handlers answer, under two methods, and one whose handler throws.
UserTables(n) ==
    {[m \in {"ping", "echo"} |-> Handler(n, "answer")],
     [m \in {"ping"} |-> Handler(n, "throws")]}

channelKeepsOld(chs, header, methods) ==
    Append(chs, [header |-> header, methods |-> methods])

\* net.channel(header, methods), the array: the entries of this header are
\* filtered out, then the new entry is pushed.
channel(chs, header, methods) ==
    Append(SelectSeq(chs, LAMBDA ch : ch.header # header),
           [header |-> header, methods |-> methods])

\* net.channel is called: with a header that is no string or empty it throws,
\* else it registers.
Channel ==
    /\ regCount < MaxChannels
    /\ \E header \in Headers \cup {""} : \E methods \in UserTables(regCount + 1) :
          IF header = ""
          THEN /\ raised' = TRUE
               /\ UNCHANGED <<channels, regCount, latest>>
          ELSE /\ raised' = FALSE
               /\ channels' = channel(channels, header, methods)
               /\ regCount' = regCount + 1
               /\ latest' = [latest EXCEPT ![header] = regCount + 1]
    /\ inbound' = NoMessage
    /\ invoked' = <<>>
    /\ sent' = <<>>
    /\ Out("channel", <<>>, <<>>, NoCycle)
    /\ UNCHANGED <<now, store, syncStrategy, mergeVars, netVars, syncVars,
                   writeCount, net, discVars, adaptersUp, selected, adapterCalls,
                   threw, tearVars, restVars>>

\* __channels__.find(ch => ch.header === header): the first match.
find(chs, header) ==
    IF \E i \in 1..Len(chs) : chs[i].header = header
    THEN chs[CHOOSE i \in 1..Len(chs) :
                /\ chs[i].header = header
                /\ \A j \in 1..(i - 1) : chs[j].header # header]
    ELSE NoChannel

\* methods[name] of a table that is an object literal: its own property; or
\* what it inherits, a function, or under '__proto__' the prototype object,
\* which is truthy and no function; or undefined.
lookup(methods, name) ==
    IF name \in DOMAIN methods THEN methods[name]
    ELSE IF name \in InheritedFunctions THEN Handler(0, "inherited")
    ELSE IF name = "__proto__" THEN Handler(0, "not-callable")
    ELSE NoHandler

\* What handleMessage finds for a message: channel && channel.methods[method].
dispatch(chs, data) ==
    IF find(chs, data.header) = NoChannel THEN NoHandler
    ELSE lookup(find(chs, data.header).methods, data.method)

answerToAll(data, from, method, answerData) ==
    [to |-> "all", header |-> data.header, method |-> method, data |-> answerData]

\* answer(method, answerData): peer.send(from, response).
answer(data, from, method, answerData) ==
    [to |-> from, header |-> data.header, method |-> method, data |-> answerData]

catchErrorRethrow == [events |-> <<>>, raised |-> TRUE]

\* The catch of handleMessage: the error is logged and dispatched as 'error'.
catchError == [events |-> <<"error">>, raised |-> FALSE]

\* The record a peer sends for 'post' and 'sync': newer than what A holds
\* under key a when the engine starts.
RemoteBatch == <<[key |-> "a", payload |-> PA, ts |-> MaxTime - 1, ver |-> 1]>>

\* What a peer sends that is no record: null in the place of an object.
NullEntry == [null |-> TRUE]

\* The same record, followed by a null.
BrokenBatch == RemoteBatch \o <<NullEntry>>

\* The inbound messages: any topic and method, the data their methods read.
Messages ==
    [header : Headers \cup {"news"},
     method : {"get", "ping", "echo", "nope", "toString", "__proto__"},
     batch : {<<>>}, lastSync : {0}]
    \cup [header : Headers \cup {"news"}, method : {"post", "sync"},
          batch : {RemoteBatch, BrokenBatch}, lastSync : {0}]
    \cup [header : Headers \cup {"news"}, method : {"sync-request"},
          batch : {<<>>}, lastSync : (-1)..MaxTime]

Senders == {"dht-peer-1", "mqtt-peer-22"}

\* What a step of handleMessage leaves: the functions it invoked, what it
\* sent, the events it dispatched, whether it raised.
Result(fns, sends, evs, up) ==
    /\ invoked' = fns
    /\ sent' = sends
    /\ raised' = up
    /\ Out("message", evs, <<>>, NoCycle)

\* mergeRemoteData rejects: reading remoteEntry[keyPath] of an entry that is
\* null throws, in the loop, before batchSet is called.
mergeRejects(remoteData) == \E i \in 1..Len(remoteData) : remoteData[i] = NullEntry

\* A handler of the table of AuroraDB.create that merges: 'post' merges the
\* data and dispatches 'post', 'sync' merges syncData.data.  The handler
\* catches what mergeRemoteData throws and logs it.
mergeHandler(h, data) ==
    IF mergeRejects(data.batch)
    THEN /\ Result(<<h>>, <<>>, <<>>, FALSE)
         /\ handlerLog' = <<IF h.does = "post" THEN "Sync post failed"
                            ELSE "Sync failed">>
         /\ UNCHANGED <<now, store, threw>>
    ELSE
    \E stamps \in StampSeqs(now,
                    Len(MergeStaged(store["A"], data.batch, syncStrategy).updates)) :
        /\ store' = [store EXCEPT !["A"] =
                        mergeRemoteData(@, data.batch, syncStrategy, stamps).store]
        /\ now' = IF stamps = <<>> THEN now ELSE stamps[Len(stamps)]
        /\ Result(<<h>>, <<>>, IF h.does = "post" THEN <<"post">> ELSE <<>>, FALSE)
        /\ handlerLog' = <<>>
        /\ UNCHANGED threw

\* PeerStore.handleMessage(data, from): the handler found is awaited; what it
\* throws, and the TypeError of calling what is no function, is caught.
handleMessage(data, from) ==
    LET h == dispatch(channels, data)
    IN /\ inbound' = [data |-> data, from |-> from]
       /\ IF h = NoHandler
          THEN /\ Result(<<>>, <<>>, <<>>, FALSE)
               /\ UNCHANGED <<now, store, threw>>
          ELSE IF h.does = "not-callable"
          THEN /\ Result(<<>>, <<>>, catchError.events, catchError.raised)
               /\ UNCHANGED <<now, store, threw>>
          ELSE IF h.does \in {"post", "sync"}
          THEN mergeHandler(h, data)
          ELSE IF h.does = "throws"
          THEN /\ Result(<<h>>, <<>>, catchError.events, catchError.raised)
               /\ threw' = TRUE
               /\ UNCHANGED <<now, store>>
          ELSE /\ Result(<<h>>,
                     CASE h.does = "get" ->
                            <<answer(data, from, "post", all(store["A"]))>>
                       [] h.does = "sync-request" ->
                            <<answer(data, from, "sync",
                                [data |-> filteredData(all(store["A"]),
                                                       data.lastSync)])>>
                       [] h.does = "answer" ->
                            <<answer(data, from, "pong", <<>>)>>
                       [] OTHER -> <<>>,
                     <<>>, FALSE)
               /\ UNCHANGED <<now, store, threw>>
       /\ IF h # NoHandler /\ h.does \in {"post", "sync"}
          THEN TRUE ELSE handlerLog' = <<>>
       /\ UNCHANGED <<syncStrategy, mergeVars, netVars, syncVars, writeCount, net,
                      discVars, adaptersUp, selected, adapterCalls, channels,
                      regCount, latest, tearVars, registryVars, transportVars,
                      createVars, sourceVars, raceVars, connections>>

\* The transport's 'message' event (setupPeerHandlers).
HandleMessage ==
    \E data \in Messages : \E from \in Senders : handleMessage(data, from)

\* The transport is connected; replica A holds three records, written at
\* three times.
ChanInit ==
    /\ now = MaxTime
    /\ syncStrategy = "timestamp"
    /\ MergeIdle
    /\ EngineIdle
    /\ store = [r \in Replicas |->
                  IF r = "A"
                  THEN [k \in Keys |->
                          [payload |-> PB, ver |-> 1,
                           ts |-> CASE k = "a" -> MaxTime - 2
                                    [] k = "b" -> MaxTime - 1
                                    [] k = "c" -> MaxTime]]
                  ELSE EmptyStore]

ChanNext ==
    \/ Channel
    \/ HandleMessage

ChanSpec == ChanInit /\ [][ChanNext]_vars

-----------------------------------------------------------------------------
(* The claims about channels and dispatch.                                  *)

\* The last step handled an inbound message.
MessageHandled == lastOp = "message" /\ inbound # NoMessage

\* C15: there is one registration per topic, it is the table of the last
\* net.channel call for that topic, a message is dispatched to at most one
\* handler, and a registered handler that is invoked belongs to the last
\* registration of the message's topic.
C15_OneRegistrationPerTopic ==
    /\ \A i \in 1..Len(channels) : \A j \in 1..Len(channels) :
          channels[i].header = channels[j].header => i = j
    /\ \A h \in Headers :
          latest[h] > 0 =>
             \E i \in 1..Len(channels) :
                /\ channels[i].header = h
                /\ \A m \in DOMAIN channels[i].methods :
                      channels[i].methods[m].reg = latest[h]
    /\ Len(invoked) <= 1
    /\ \A i \in 1..Len(invoked) :
          invoked[i].reg > 0 => invoked[i].reg = latest[inbound.data.header]

\* The scheme's topic was registered again, with a table that has no
\* 'sync-request': a 'sync-request' on that topic invokes nothing.
C15_Witness ==
    /\ MessageHandled
    /\ latest[SchemeName] > 1
    /\ inbound.data.header = SchemeName
    /\ inbound.data.method = "sync-request"
    /\ invoked = <<>>
    /\ sent = <<>>

\* The message's topic has no channel, or its channel's table has no such
\* method.
Unmatched(chs, data) ==
    \/ \A i \in 1..Len(chs) : chs[i].header # data.header
    \/ \E i \in 1..Len(chs) :
          chs[i].header = data.header /\ data.method \notin DOMAIN chs[i].methods

\* C16: a message whose topic has no channel, or whose method is not in the
\* channel's table, raises nothing (no rejection, no error event), invokes
\* nothing, sends nothing and leaves the store and lastSyncTime unchanged.
C16_UnmatchedIsIgnored ==
    [][(lastOp' = "message" /\ inbound' # NoMessage
            /\ Unmatched(channels, inbound'.data))
        => /\ raised' = FALSE
           /\ events' = <<>>
           /\ invoked' = <<>>
           /\ sent' = <<>>
           /\ store' = store
           /\ lastSyncTime' = lastSyncTime]_vars

NewerThan(ourData, lastSync) == SelectSeq(ourData, LAMBDA e : e.ts > lastSync)

-----------------------------------------------------------------------------
(* TearSpec: PeerStore.destroy, called through AuroraDB.destroy, on an      *)
(* engine with the universal adapter and discovery, while the auto-sync     *)
(* interval fires and sync cycles end.                                      *)

\* An entry of the teardown log: a step of destroy() begins, ends or fails.
Begin(step) == [step |-> step, at |-> "begin"]
End(step) == [step |-> step, at |-> "end"]
Failed(step) == [step |-> step, at |-> "failed"]

DestroyCallSkipsDiscovery ==
    /\ destroyPc = "idle"
    /\ syncTimer' = FALSE
    /\ teardown' = teardown \o <<Begin("timer"), End("timer"), Begin("transport")>>
    /\ destroyPc' = "transport"
    /\ Out("destroy", <<>>, <<>>, NoCycle)
    /\ UNCHANGED <<now, store, syncStrategy, mergeVars, peerInit, isConnected,
                   openConns, syncVars, writeCount, net, discVars, adapterVars,
                   chanVars, isOpen, restVars>>

\* destroy() up to its first await: stopAutoSync() clears the interval, then
\* discoveryManager.stopDiscovery() is called.
DestroyCall ==
    /\ destroyPc = "idle"
    /\ syncTimer' = FALSE
    /\ teardown' = teardown \o <<Begin("timer"), End("timer"), Begin("discovery")>>
    /\ destroyPc' = "discovery"
    /\ Out("destroy", <<>>, <<>>, NoCycle)
    /\ UNCHANGED <<now, store, syncStrategy, mergeVars, peerInit, isConnected,
                   openConns, syncVars, writeCount, net, discVars, adapterVars,
                   chanVars, isOpen, restVars>>

\* stopDiscovery() resolves, whichever disconnect() failed, and
\* peer.destroy() is called.
DiscoveryStopped ==
    /\ destroyPc = "discovery"
    /\ \E failing \in SUBSET DiscoveryMethods :
          LET r == disconnectEach(AdapterOrder, failing, Started(<<>>, adaptersUp))
          IN /\ selected' = AdapterOrder
             /\ adapterCalls' = r.calls
             /\ adaptersUp' = r.up
             /\ raised' = r.raised
    /\ teardown' = teardown \o <<End("discovery"), Begin("transport")>>
    /\ destroyPc' = "transport"
    /\ Out("stop-discovery", <<>>, <<>>, NoCycle)
    /\ UNCHANGED <<now, store, syncStrategy, mergeVars, netVars, syncVars,
                   writeCount, net, discVars, chanVars, isOpen, restVars>>

\* peer.destroy() settles.  When it resolves, super.close() follows, which
\* closes the store handle and dispatches 'close' without an await.  When it
\* rejects, destroy() rejects there, and AuroraDB.destroy dispatches 'error'
\* and rethrows.
TransportDestroyed ==
    /\ destroyPc = "transport"
    /\ \E ok \in BOOLEAN :
          IF ok
          THEN /\ openConns' = 0
               /\ isOpen' = FALSE
               /\ teardown' = teardown \o
                     <<End("transport"), Begin("store"), End("store")>>
               /\ destroyPc' = "done"
               /\ raised' = FALSE
               /\ Out("destroyed", <<"close">>, <<>>, NoCycle)
          ELSE /\ UNCHANGED <<openConns, isOpen>>
               /\ teardown' = Append(teardown, Failed("transport"))
               /\ destroyPc' = "failed"
               /\ raised' = TRUE
               /\ Out("destroy-failed", <<"error">>, <<>>, NoCycle)
    /\ UNCHANGED <<now, store, syncStrategy, mergeVars, peerInit, isConnected,
                   syncTimer, syncVars, writeCount, net, discVars, adaptersUp,
                   selected, adapterCalls, chanVars, restVars>>

\* The engine runs: the transport is connected, the auto-sync interval is
\* set, some discovery adapters are connected.
TearInit ==
    /\ now = 1
    /\ syncStrategy = "timestamp"
    /\ store = [r \in Replicas |->
                  [EmptyStore EXCEPT !["a"] = [payload |-> PA, ts |-> 1, ver |-> 1]]]
    /\ MergeIdle
    /\ peerInit = "done"
    /\ isConnected = TRUE
    /\ openConns = 0
    /\ syncTimer = TRUE
    /\ lastSyncTime = [r \in Replicas |-> 0]
    /\ cycles = <<>>
    /\ finished = NoCycle
    /\ lastOp = "none"
    /\ events = <<>>
    /\ broadcasts = <<>>
    /\ writeCount = [k \in Keys |-> 0]
    /\ net = [r \in Replicas |-> <<>>]
    /\ DiscIdle
    /\ adaptersUp \in SUBSET DiscoveryMethods
    /\ selected = <<>>
    /\ adapterCalls = <<>>
    /\ raised = FALSE
    /\ ChanIdle
    /\ TearIdle
    /\ RestIdle

TearNext ==
    \/ DestroyCall
    \/ DiscoveryStopped
    \/ TransportDestroyed
    \/ TimerFire
    \/ SyncFinish
    \/ ConnectionOpened

TearSpec == TearInit /\ [][TearNext]_vars

-----------------------------------------------------------------------------
(* The claims about teardown.                                               *)

\* C19: the steps of destroy() begin in the order timer, discovery adapters,
\* transport, store handle, and a step begins only when the one before it
\* has ended; when a step begins, what the steps before it do is done.
C19_TeardownOrder ==
    /\ \A i \in 1..Len(teardown) :
          /\ teardown[i].step =
                <<"timer", "discovery", "transport", "store">>[(i + 1) \div 2]
          /\ teardown[i].at =
                (IF i % 2 = 1 THEN "begin"
                 ELSE IF i = Len(teardown) /\ destroyPc = "failed"
                 THEN "failed" ELSE "end")
    /\ (\E i \in 1..Len(teardown) : teardown[i] = Begin("discovery"))
          => syncTimer = FALSE
    /\ (\E i \in 1..Len(teardown) : teardown[i] = Begin("transport"))
          => adapterCalls = <<"bittorrent-dht", "mqtt", "ipfs">>
    /\ isOpen = FALSE
          => \E i \in 1..Len(teardown) : teardown[i] = End("transport")

\* destroy() has run to its end, one adapter's disconnect() having failed.
C19_Witness ==
    /\ destroyPc = "done"
    /\ Len(teardown) = 8
    /\ isOpen = FALSE
    /\ adaptersUp # {}

\* C20: when destroy() has ended, with or without a failure of a step, the
\* local store handle is released.
C20_TeardownTolerant ==
    destroyPc \in {"done", "failed"}
        => /\ isOpen = FALSE
           /\ \E i \in 1..Len(teardown) : teardown[i] = End("store")

-----------------------------------------------------------------------------
(* RegistrySpec: P2PAdapterRegistry.  Callers register adapters under names *)
(* in any letter case, and ask the registry for them.                       *)

\* The names callers use.
AdapterNames == {"peerjs", "PeerJS", "PEERJS", "webrtc", "universal",
                 "mesh", "Mesh", "MESH"}

\* String.prototype.toLowerCase on these names.
toLowerCase(name) ==
    CASE name \in {"peerjs", "PeerJS", "PEERJS"} -> "peerjs"
      [] name \in {"mesh", "Mesh", "MESH"} -> "mesh"
      [] OTHER -> name

\* typeof: a class and an arrow function are both 'function'.
typeof(v) == IF v.kind \in {"class", "arrow"} THEN "function" ELSE v.kind

\* new v(config) succeeds for a class only; for any other function it is a
\* TypeError.
IsConstructor(v) == v.kind = "class"

\* Map.get, Map.has and Map.set on the entries.
mapGet(ads, key) ==
    IF \E i \in 1..Len(ads) : ads[i].name = key
    THEN (CHOOSE e \in {ads[i] : i \in 1..Len(ads)} : e.name = key).adapterClass
    ELSE Undefined

mapHas(ads, key) == \E i \in 1..Len(ads) : ads[i].name = key

mapSet(ads, key, v) ==
    IF mapHas(ads, key)
    THEN [i \in 1..Len(ads) |->
            IF ads[i].name = key THEN [name |-> key, adapterClass |-> v]
            ELSE ads[i]]
    ELSE Append(ads, [name |-> key, adapterClass |-> v])

\* register(name, adapterClass): the entries afterwards and what was thrown.
register(ads, name, adapterClass) ==
    IF typeof(adapterClass) # "function"
    THEN [adapters |-> ads,
          raised |-> [message |-> "Adapter must be a constructor function"]]
    ELSE [adapters |-> mapSet(ads, toLowerCase(name), adapterClass),
          raised |-> NoError]

get(ads, name) == mapGet(ads, toLowerCase(name))

has(ads, name) == mapHas(ads, toLowerCase(name))

list(ads) == [i \in 1..Len(ads) |-> ads[i].name]

\* create(name, config): the adapter constructed, or what was thrown.
create(ads, name) ==
    LET AdapterClass == get(ads, name) IN
    IF AdapterClass = Undefined
    THEN [returned |-> Undefined,
          raised |-> [message |-> "Unknown P2P adapter", name |-> name,
                      available |-> list(ads)]]
    ELSE IF IsConstructor(AdapterClass)
    THEN [returned |-> [instanceOf |-> AdapterClass.name], raised |-> NoError]
    ELSE [returned |-> Undefined,
          raised |-> [message |-> "AdapterClass is not a constructor"]]

Call(op, name, arg, returned, err) ==
    [op |-> op, name |-> name, adapterClass |-> arg, returned |-> returned,
     raised |-> err]

Register ==
    \E name \in AdapterNames :
      \E v \in {Class("MeshAdapter"), ArrowFunction, PlainObject, Undefined} :
        LET r == register(adapters, name, v) IN
        /\ adapters' = r.adapters
        /\ registryCall' = Call("register", name, v, Undefined, r.raised)
        /\ UNCHANGED <<now, store, syncStrategy, mergeVars, engineVars, net,
                       discVars, adapterVars, chanVars, tearVars,
                       transportVars, createVars, sourceVars, handlerLog, raceVars, connections>>

Get ==
    \E name \in AdapterNames :
        /\ registryCall' =
              Call("get", name, Undefined, get(adapters, name), NoError)
        /\ UNCHANGED <<now, store, syncStrategy, mergeVars, engineVars, net,
                       discVars, adapterVars, chanVars, tearVars, adapters,
                       transportVars, createVars, sourceVars, handlerLog, raceVars, connections>>

Has ==
    \E name \in AdapterNames :
        /\ registryCall' =
              Call("has", name, Undefined, has(adapters, name), NoError)
        /\ UNCHANGED <<now, store, syncStrategy, mergeVars, engineVars, net,
                       discVars, adapterVars, chanVars, tearVars, adapters,
                       transportVars, createVars, sourceVars, handlerLog, raceVars, connections>>

Create ==
    \E name \in AdapterNames :
        LET r == create(adapters, name) IN
        /\ registryCall' = Call("create", name, Undefined, r.returned, r.raised)
        /\ UNCHANGED <<now, store, syncStrategy, mergeVars, engineVars, net,
                       discVars, adapterVars, chanVars, tearVars, adapters,
                       transportVars, createVars, sourceVars, handlerLog, raceVars, connections>>

\* The module has been loaded; nothing else has run.
LoadedInit ==
    /\ now = 1
    /\ syncStrategy = "timestamp"
    /\ store = [r \in Replicas |-> EmptyStore]
    /\ MergeIdle
    /\ EngineIdle

RegistryNext ==
    \/ Register
    \/ Get
    \/ Has
    \/ Create

RegistrySpec == LoadedInit /\ [][RegistryNext]_vars

-----------------------------------------------------------------------------
(* The claims about the adapter registry.                                   *)

SameName(n, m) == toLowerCase(n) = toLowerCase(m)

\* C21: the registry is case-insensitive and fails fast: a registered
\* constructor is found under every letter-case variant of its name;
\* register with a value that is not a constructor raises and leaves the
\* registry as it was; create with an unregistered name raises an error
\* listing the registered names and constructs nothing.
C21_RegistryFailsFast ==
    [][LET c == registryCall' IN
       /\ (c.op = "register" /\ IsConstructor(c.adapterClass))
             => \A m \in AdapterNames :
                   SameName(m, c.name) => get(adapters', m) = c.adapterClass
       /\ (c.op = "register" /\ ~IsConstructor(c.adapterClass))
             => (c.raised # NoError /\ adapters' = adapters)
       /\ (c.op = "create" /\ ~has(adapters, c.name))
             => (c.raised # NoError /\ c.returned = Undefined)]_vars

-----------------------------------------------------------------------------
(* ReconnectSpec: PeerJSAdapter after connect().  The PeerJS peer loses its *)
(* server connection, the transport schedules reconnection attempts, the    *)
(* attempts fail or the peer opens again.                                   *)

RECURSIVE Pow2(_)
\* Math.pow(2, n)
Pow2(n) == IF n = 0 THEN 1 ELSE 2 * Pow2(n - 1)

\* attemptReconnect, up to and including the setTimeout: the counter, the
\* timers, the delays since the last 'open', and what was logged.
attemptReconnectNoCap(n, tm, ds) ==
    LET delay == reconnectDelay * Pow2(n) IN
    [reconnectAttempts |-> n + 1, timers |-> Append(tm, delay),
     delays |-> Append(ds, delay), logged |-> <<>>]

attemptReconnect(n, tm, ds) ==
    IF n >= maxReconnectAttempts
    THEN [reconnectAttempts |-> n, timers |-> tm, delays |-> ds,
          logged |-> <<"Max reconnection attempts reached">>]
    ELSE LET delay == reconnectDelay * Pow2(n) IN
         [reconnectAttempts |-> n + 1, timers |-> Append(tm, delay),
          delays |-> Append(ds, delay), logged |-> <<>>]

\* No more than MaxTimers timers are kept.
MaySchedule == reconnectAttempts < maxReconnectAttempts => Len(timers) < MaxTimers

RemoveAt(seq, i) == [j \in 1..(Len(seq) - 1) |-> IF j < i THEN seq[j] ELSE seq[j + 1]]

TransportFrame ==
    UNCHANGED <<now, store, syncStrategy, mergeVars, engineVars, net,
                discVars, adapterVars, chanVars, tearVars, registryVars,
                createVars, sourceVars, handlerLog, raceVars, connections>>

\* peer.on('disconnected'): the peer has lost its server connection, while
\* open or while an attempt to reconnect it is under way.
peerDisconnected ==
    /\ link \in {"open", "reconnecting"}
    /\ MaySchedule
    /\ LET r == attemptReconnect(reconnectAttempts, timers, delays) IN
       /\ link' = "disconnected"
       /\ reconnectAttempts' = r.reconnectAttempts
       /\ timers' = r.timers
       /\ delays' = r.delays
       /\ logged' = r.logged
       /\ emitted' = <<"disconnect">>
       /\ transportOp' = "disconnected"
       /\ UNCHANGED awaiting

\* The same on a transport nothing listens to.
PeerDisconnected == peerDisconnected /\ TransportFrame

\* A reconnection timer fires: peer.reconnect() (or new Peer) is called.  It
\* throws, and the catch runs attemptReconnect again, or the callback goes
\* on to await 'open'.
TimerFired ==
    \E i \in 1..Len(timers) : \E throws \in BOOLEAN :
        LET rest == RemoveAt(timers, i) IN
        IF throws
        THEN LET r == attemptReconnect(reconnectAttempts, rest, delays) IN
             /\ reconnectAttempts < maxReconnectAttempts => Len(rest) < MaxTimers
             /\ reconnectAttempts' = r.reconnectAttempts
             /\ timers' = r.timers
             /\ delays' = r.delays
             /\ logged' = <<"Reconnection attempt failed">> \o r.logged
             /\ emitted' = <<>>
             /\ transportOp' = "attempt-failed"
             /\ UNCHANGED <<link, awaiting>>
             /\ TransportFrame
        ELSE /\ awaiting < MaxAwaiting
             /\ timers' = rest
             /\ awaiting' = awaiting + 1
             /\ link' = IF link = "disconnected" THEN "reconnecting" ELSE link
             /\ logged' = <<>>
             /\ emitted' = <<>>
             /\ transportOp' = "attempt-started"
             /\ UNCHANGED <<reconnectAttempts, delays>>
             /\ TransportFrame

\* The 10 s timeout of an awaited attempt: the promise rejects, the catch
\* logs and runs attemptReconnect.
AttemptTimedOut ==
    /\ awaiting > 0
    /\ MaySchedule
    /\ LET r == attemptReconnect(reconnectAttempts, timers, delays) IN
       /\ awaiting' = awaiting - 1
       /\ reconnectAttempts' = r.reconnectAttempts
       /\ timers' = r.timers
       /\ delays' = r.delays
       /\ logged' = <<"Reconnection attempt failed">> \o r.logged
       /\ emitted' = <<>>
       /\ transportOp' = "attempt-failed"
       /\ UNCHANGED link
    /\ TransportFrame

\* peer.on('open'): the peer is connected to its server again.  The handler
\* connect() registered and the handler of every attempt run.
peerOpened ==
    /\ link = "reconnecting"
    /\ link' = "open"
    /\ reconnectAttempts' = 0
    /\ awaiting' = 0
    /\ delays' = <<>>
    /\ logged' = <<>>
    /\ emitted' = <<"open">>
    /\ transportOp' = "open"
    /\ UNCHANGED timers

PeerOpened == peerOpened /\ TransportFrame

\* peer.on('error'): the library reports an error, which is forwarded.
PeerError ==
    /\ emitted' = <<"error">>
    /\ logged' = <<>>
    /\ transportOp' = "peer-error"
    /\ UNCHANGED <<reconnectAttempts, link, timers, awaiting, delays>>
    /\ TransportFrame

ReconnectNext ==
    \/ PeerDisconnected
    \/ TimerFired
    \/ AttemptTimedOut
    \/ PeerOpened
    \/ PeerError

ReconnectSpec == LoadedInit /\ [][ReconnectNext]_vars

-----------------------------------------------------------------------------
(* The claims about reconnection.                                           *)

\* C22: when an attempt fails with the attempts at the cap, the transport
\* emits an error event and schedules no further attempt.
C22_TerminalError ==
    [][(transportOp' = "attempt-failed"
          /\ reconnectAttempts = maxReconnectAttempts)
        => /\ \E i \in 1..Len(emitted') : emitted'[i] = "error"
           /\ Len(timers') <= Len(timers)
           /\ reconnectAttempts' = reconnectAttempts]_vars

\* C23: reconnectAttempts never exceeds maxReconnectAttempts; the k-th
\* attempt scheduled since the last 'open' has the delay
\* reconnectDelay * 2^(k-1); when the peer has opened, reconnectAttempts
\* is 0.
C23_AttemptsBounded ==
    /\ reconnectAttempts <= maxReconnectAttempts
    /\ Len(delays) = reconnectAttempts
    /\ \A k \in 1..Len(delays) : delays[k] = reconnectDelay * Pow2(k - 1)
    /\ transportOp = "open" => reconnectAttempts = 0

\* The cap is reached while several timers are pending and an attempt is
\* awaited.
C23_Witness ==
    /\ reconnectAttempts = maxReconnectAttempts
    /\ Len(timers) >= 2
    /\ awaiting >= 1
    /\ link = "disconnected"

-----------------------------------------------------------------------------
(* CreateSpec: AuroraDB.create(true), from the call to its outcome, and the *)
(* engine it leaves behind.                                                 *)

\* The schemes a database is constructed with, as validateAndNormalizeScheme
\* returns them.
Schemes ==
    [p2pAdapter : {"peerjs", "PeerJS", "mesh"}, autoSync : BOOLEAN,
     syncInterval : {0, 5000}]

NoScheme == [none |-> TRUE]

\* x || d for a number x.
OrElse(x, d) == IF x = 0 THEN d ELSE x

CreateFrame ==
    UNCHANGED <<now, store, syncStrategy, mergeVars, openConns, syncVars,
                writeCount, net, discVars, adapterVars, inbound, threw, invoked,
                sent, destroyPc, teardown, registryVars, transportVars,
                sourceVars, handlerLog, raceVars, connections>>

\* The promise create() awaits settles: on 'open' it goes on to register the
\* sync channel and marks the database ready; on 'error' or on its timeout
\* the catch dispatches 'error' and create() rejects.
createContinues(heard) ==
    IF createPc = "waiting" /\ heard = "open"
    THEN /\ createPc' = "resolved"
         /\ channels' = channel(channels, SchemeName, SyncChannel.methods)
         /\ regCount' = regCount + 1
         /\ latest' = [latest EXCEPT ![SchemeName] = regCount + 1]
         /\ connected' = TRUE
         /\ isReady' = TRUE
         /\ dbEvents' = <<"open">>
    ELSE IF createPc = "waiting" /\ heard \in {"error", "timeout"}
    THEN /\ createPc' = "rejected"
         /\ dbEvents' = <<"error">>
         /\ UNCHANGED <<channels, regCount, latest, connected, isReady>>
    ELSE /\ dbEvents' = <<>>
         /\ UNCHANGED <<createPc, channels, regCount, latest, connected, isReady>>

\* AuroraDB.create(true) up to its await.  new PeerStore(config) runs first:
\* IDB's constructor starts open(), PeerStore's constructor sets its fields
\* and calls initializePeer(), which runs to its first await: when
\* p2pRegistry.create throws, its catch dispatches 'error' on the store and
\* the promise of initializePeer, which nobody holds, rejects.  Only then
\* create() adds its listeners to the store.
CreateCall ==
    /\ createPc = "idle"
    /\ \E sch \in Schemes :
         LET made == create(adapters, sch.p2pAdapter) IN
         /\ scheme' = sch
         /\ idbRequest' = "pending"
         /\ autoSync' = (sch.autoSync # FALSE)
         /\ syncInterval' = OrElse(sch.syncInterval, DefaultSyncInterval)
         /\ IF made.raised # NoError
            THEN /\ peerInit' = "failed"
                 /\ Out("create", <<"error">>, <<>>, NoCycle)
            ELSE /\ peerInit' = "connecting"
                 /\ Out("create", <<>>, <<>>, NoCycle)
    /\ createPc' = "waiting"
    /\ dbEvents' = <<>>
    /\ UNCHANGED <<isConnected, syncTimer, isOpen, isReady, connected, channels,
                   regCount, latest>>
    /\ CreateFrame

\* request.onsuccess of IDB.open: the store is open and dispatches 'open'.
IdbOpened ==
    /\ idbRequest = "pending"
    /\ idbRequest' = "success"
    /\ isOpen' = TRUE
    /\ Out("idb-open", <<"open">>, <<>>, NoCycle)
    /\ createContinues("open")
    /\ UNCHANGED <<scheme, peerInit, isConnected, syncTimer, syncInterval,
                   autoSync>>
    /\ CreateFrame

\* request.onerror of IDB.open: the store dispatches 'error'.
IdbFailed ==
    /\ idbRequest = "pending"
    /\ idbRequest' = "error"
    /\ Out("idb-error", <<"error">>, <<>>, NoCycle)
    /\ createContinues("error")
    /\ UNCHANGED <<scheme, peerInit, isConnected, syncTimer, isOpen,
                   syncInterval, autoSync>>
    /\ CreateFrame

\* peer.connect() resolves: the transport's 'open' is passed on by the
\* store, and initializePeer goes on to startAutoSync.
PeerConnected ==
    /\ peerInit = "connecting"
    /\ peerInit' = "done"
    /\ isConnected' = TRUE
    /\ syncTimer' = autoSync
    /\ Out("connect", <<"open">>, <<>>, NoCycle)
    /\ createContinues("open")
    /\ UNCHANGED <<scheme, idbRequest, isOpen, syncInterval, autoSync>>
    /\ CreateFrame

\* peer.connect() rejects: the catch of initializePeer dispatches 'error'.
PeerConnectFailed ==
    /\ peerInit = "connecting"
    /\ peerInit' = "failed"
    /\ Out("connect-failed", <<"error">>, <<>>, NoCycle)
    /\ createContinues("error")
    /\ UNCHANGED <<scheme, idbRequest, isConnected, syncTimer, isOpen,
                   syncInterval, autoSync>>
    /\ CreateFrame

\* The 25 s timeout of create().
CreateTimeout ==
    /\ createPc = "waiting"
    /\ Out("create-timeout", <<>>, <<>>, NoCycle)
    /\ createContinues("timeout")
    /\ UNCHANGED <<scheme, idbRequest, peerInit, isConnected, syncTimer, isOpen,
                   syncInterval, autoSync>>
    /\ CreateFrame

\* AuroraDB is constructed; create() has not been called.
CreateInit ==
    /\ now = 1
    /\ syncStrategy = "timestamp"
    /\ store = [r \in Replicas |-> EmptyStore]
    /\ MergeIdle
    /\ peerInit = "none"
    /\ isConnected = FALSE
    /\ openConns = 0
    /\ syncTimer = FALSE
    /\ lastSyncTime = [r \in Replicas |-> 0]
    /\ cycles = <<>>
    /\ finished = NoCycle
    /\ lastOp = "none"
    /\ events = <<>>
    /\ broadcasts = <<>>
    /\ writeCount = [k \in Keys |-> 0]
    /\ net = [r \in Replicas |-> <<>>]
    /\ DiscIdle
    /\ AdaptersIdle
    /\ channels = <<>>
    /\ regCount = 0
    /\ latest = [h \in Headers |-> 0]
    /\ inbound = NoMessage
    /\ threw = FALSE
    /\ invoked = <<>>
    /\ sent = <<>>
    /\ destroyPc = "idle"
    /\ teardown = <<>>
    /\ isOpen = FALSE
    /\ RegistryIdle
    /\ TransportIdle
    /\ SourceIdle
    /\ handlerLog = <<>>
    /\ RaceIdle
    /\ connections = {}
    /\ scheme = NoScheme
    /\ createPc = "idle"
    /\ idbRequest = "none"
    /\ isReady = FALSE
    /\ connected = FALSE
    /\ syncInterval = 0
    /\ autoSync = FALSE
    /\ dbEvents = <<>>

CreateNext ==
    \/ CreateCall
    \/ IdbOpened
    \/ IdbFailed
    \/ PeerConnected
    \/ PeerConnectFailed
    \/ CreateTimeout
    \/ TimerFire
    \/ SyncCall
    \/ SyncFinish

CreateSpec == CreateInit /\ [][CreateNext]_vars

-----------------------------------------------------------------------------
(* The claims about create() and the sync interval.                         *)

\* C24: when create(true) was called with a p2pAdapter name that is not
\* registered, create does not resolve and the database is neither ready
\* nor marked distributed.
C24_UnknownAdapterFatal ==
    (createPc # "idle" /\ ~has(adapters, scheme.p2pAdapter))
        => /\ createPc # "resolved"
           /\ ~isReady
           /\ ~connected

\* C25: in an engine configured with syncInterval 0, no step of the
\* auto-sync timer starts a sync cycle.
C25_ZeroDisablesTimer ==
    [][(scheme # NoScheme /\ scheme.syncInterval = 0 /\ lastOp' = "timer")
        => cycles' = cycles]_vars

-----------------------------------------------------------------------------
(* SourceSpec: the discovery adapters (BitTorrentDHTAdapter,                *)
(* MQTTDiscoveryAdapter) from connect() to disconnect(), with the manager   *)
(* that listens to them.                                                    *)

SourceEvent(m, type) == [method |-> m, type |-> type]

\* The peerId an adapter's simulated discovery announces.
Announced(m) == IF m = "bittorrent-dht" THEN "dht-peer-1" ELSE "mqtt-peer-22"

SourceFrame ==
    UNCHANGED <<now, store, syncStrategy, mergeVars, engineVars, net, discVars,
                adapterVars, chanVars, tearVars, registryVars, transportVars,
                createVars, handlerLog, raceVars, connections>>

\* adapter.connect(): a timeout is set (1000 ms, 1500 ms) and true returned.
AdapterConnect ==
    \E m \in SourceMethods :
        /\ m \notin connectTimers
        /\ connectTimers' = connectTimers \cup {m}
        /\ stopped' = stopped \ {m}
        /\ sourceEvents' = <<>>
        /\ UNCHANGED <<sourceConnected, discoveryIntervals>>
        /\ SourceFrame

\* The timeout of connect() fires: isConnected is set, the discovery
\* interval is started and 'connected' is dispatched.
ConnectTimerFired ==
    \E m \in connectTimers :
        /\ discoveryIntervals[m] < MaxIntervals
        /\ connectTimers' = connectTimers \ {m}
        /\ sourceConnected' = sourceConnected \cup {m}
        /\ discoveryIntervals' = [discoveryIntervals EXCEPT ![m] = @ + 1]
        /\ sourceEvents' = <<SourceEvent(m, "connected")>>
        /\ UNCHANGED stopped
        /\ SourceFrame

\* The discovery interval fires and Math.random() is above the threshold:
\* 'peer-discovered' is dispatched, which the manager's listener hands to
\* handlePeerDiscovery.
DiscoveryTick ==
    \E m \in SourceMethods :
        /\ discoveryIntervals[m] > 0
        /\ sourceEvents' = <<SourceEvent(m, "peer-discovered")>>
        /\ handlePeerDiscovery(m, Announced(m), FALSE, TRUE)
        /\ UNCHANGED <<sourceConnected, connectTimers, discoveryIntervals,
                       stopped>>

\* adapter.disconnect(), as stopDiscovery awaits it: isConnected is cleared.
AdapterDisconnect ==
    \E m \in SourceMethods :
        /\ sourceConnected' = sourceConnected \ {m}
        /\ stopped' = stopped \cup {m}
        /\ sourceEvents' = <<>>
        /\ UNCHANGED <<connectTimers, discoveryIntervals>>
        /\ SourceFrame

SourceNext ==
    \/ AdapterConnect
    \/ ConnectTimerFired
    \/ DiscoveryTick
    \/ AdapterDisconnect
    \/ AttemptResolved

SourceSpec == DiscInit /\ [][SourceNext]_vars

\* C26: an adapter for which disconnect() has resolved, and connect() has
\* not been called since, dispatches no 'connected' and no 'peer-discovered'
\* event (which the manager would handle).
C26_DisconnectCancels ==
    \A i \in 1..Len(sourceEvents) : sourceEvents[i].method \notin stopped

-----------------------------------------------------------------------------
(* The claim about a failing merge.                                         *)

\* C27: when the merge of an inbound 'post' or 'sync' message fails, an
\* error event is dispatched on the engine and the stored records stay.
C27_MergeFailureSurfaced ==
    [][(lastOp' = "message" /\ handlerLog' # <<>>)
        => /\ \E i \in 1..Len(events') : events'[i] = "error"
           /\ store' = store]_vars

-----------------------------------------------------------------------------
(* The claim about concurrent connection attempts.                          *)

\* C28: at no time are two attemptConnection runs toward the same peer in
\* flight (each run awaits its connectToPeer call).
C28_AttemptsSerialized ==
    \A p \in PeerIds : attempts[p] <= 1

-----------------------------------------------------------------------------
(* Further properties of mergeRemoteData, checked under MergeSpec.          *)

\* The store the last mergeRemoteData(batch) found.
Found == IF applied = 1 THEN before ELSE after1

\* C29: under local-wins and under a strategy name that is none of the five,
\* mergeRemoteData leaves every record that was present as it was and counts
\* no conflict; it stages one update per record of the batch whose key was
\* absent, these keys are inserted, and no other key is.
C29_LocalWinsKeepsPresent ==
    (applied >= 1 /\ syncStrategy \in {"local-wins", UnknownStrategy})
    => /\ \A k \in Keys : before[k] # NoEntry => store["A"][k] = before[k]
       /\ lastResult.conflicts = 0
       /\ lastConflicts = <<>>
       /\ lastResult.updates =
             Cardinality({i \in 1..Len(batch) : Found[batch[i].key] = NoEntry})
       /\ \A k \in Keys :
             store["A"][k] # NoEntry
                <=> (before[k] # NoEntry
                       \/ \E i \in 1..Len(batch) : batch[i].key = k)

\* Under an unknown strategy name a batch was merged that holds a newer
\* record for a present key and a record for an absent key.
C29_Witness ==
    /\ applied = 1
    /\ syncStrategy = UnknownStrategy
    /\ Len(batch) = 2
    /\ batch[1].key = "a"
    /\ before["a"] # NoEntry
    /\ batch[1].ts > before["a"].ts
    /\ batch[1].ver > before["a"].ver
    /\ batch[2].key = "b"
    /\ before["b"] = NoEntry
    /\ store["A"]["b"] # NoEntry
    /\ lastResult = [updates |-> 1, conflicts |-> 0]

\* C30: under timestamp, version, local-wins and remote-wins, merging a
\* remote record that equals the stored record yields updates 0 and
\* conflicts 0 and leaves the store unchanged.
C30_EqualRecordIsNoConflict ==
    (/\ applied = 1
     /\ syncStrategy \in {"timestamp", "version", "local-wins", "remote-wins"}
     /\ Len(batch) = 1
     /\ before[batch[1].key] = ObjOf(batch[1]))
    => /\ lastResult = [updates |-> 0, conflicts |-> 0]
       /\ store["A"] = before

-----------------------------------------------------------------------------
(* The claim about peer validation.                                         *)

-----------------------------------------------------------------------------
(* RaceSpec: two inbound sync messages are handled by replica A.  The       *)
(* 'message' listener calls handleMessage without awaiting it, so the two   *)
(* mergeRemoteData runs interleave at their awaits: one at each read of     *)
(* entries[key], one at batchSet.                                           *)

MaxRemoteVer == 3

\* What the two peers send: records for key "a", alone or followed by one
\* for key "b".
RaceEntries == [key : {"a"}, payload : {PA}, ts : {1}, ver : 0..MaxRemoteVer]

RaceBatches ==
    {<<e>> : e \in RaceEntries}
    \cup {<<e, [key |-> "b", payload |-> PC, ts |-> 1, ver |-> 1]>> :
            e \in RaceEntries}

RaceFrame ==
    UNCHANGED <<syncStrategy, mergeVars, engineVars, net, discVars, adapterVars,
                chanVars, tearVars, registryVars, transportVars, createVars,
                sourceVars, handlerLog, connections>>

\* handleMessage is called with a 'sync' or 'post' message: mergeRemoteData
\* begins, with nothing read yet.
MergeBegin(r) ==
    /\ runs[r].pc = "idle"
    /\ \E data \in RaceBatches :
          runs' = [runs EXCEPT ![r] = [pc |-> "reading", data |-> data,
                                       rest |-> data, updates |-> <<>>]]
    /\ UNCHANGED <<now, store>>
    /\ RaceFrame

\* One pass of the for loop: await this.entries[key] yields the record the
\* store holds now, and the resolver stages an update or nothing.  After the
\* last pass the run goes on to batchSet, or returns when nothing is staged.
MergeRead(r) ==
    /\ runs[r].pc = "reading"
    /\ LET acc == mergeLoop(store["A"], <<Head(runs[r].rest)>>, syncStrategy,
                            [updates |-> runs[r].updates, conflicts |-> <<>>])
           rest == Tail(runs[r].rest)
       IN runs' = [runs EXCEPT ![r].rest = rest,
                               ![r].updates = acc.updates,
                               ![r].pc = IF rest # <<>> THEN "reading"
                                         ELSE IF acc.updates = <<>> THEN "done"
                                         ELSE "writing"]
    /\ UNCHANGED <<now, store>>
    /\ RaceFrame

\* await this.batchSet(updates): the staged updates are put in one
\* transaction, whatever the store holds by now.
MergeWrite(r) ==
    /\ runs[r].pc = "writing"
    /\ \E stamps \in StampSeqs(now, Len(runs[r].updates)) :
          /\ store' = [store EXCEPT
                          !["A"] = batchSet(@, runs[r].updates, stamps)]
          /\ now' = stamps[Len(stamps)]
    /\ runs' = [runs EXCEPT ![r].pc = "done"]
    /\ RaceFrame

RaceInit ==
    /\ now = MaxTime - 1
    /\ \E o \in StoredObjs \cup {NoEntry} :
          store = [r \in Replicas |->
                     IF r = "A" THEN [EmptyStore EXCEPT !["a"] = o] ELSE EmptyStore]
    /\ syncStrategy \in Strategies
    /\ before = store["A"]
    /\ batch = <<>>
    /\ applied = 0
    /\ after1 = store["A"]
    /\ lastResult = [updates |-> 0, conflicts |-> 0]
    /\ lastConflicts = <<>>
    /\ mergedAt = 0
    /\ EngineIdle

RaceNext == \E r \in Runs : MergeBegin(r) \/ MergeRead(r) \/ MergeWrite(r)

RaceSpec == RaceInit /\ [][RaceNext]_vars

\* The _version a store holds for key "a", 0 for none; the highest version
\* among the record replica A began with and the records the runs were given.
VersionOf(st) == IF st["a"] = NoEntry THEN 0 ELSE st["a"].ver

HighestGiven ==
    LET given == {VersionOf(before)} \cup {runs[r].data[1].ver : r \in Runs}
    IN CHOOSE v \in given : \A w \in given : w <= v

\* C32: under strategy version the stored version of a key never decreases
\* while two merges interleave, and when both have returned it is not lower
\* than the highest version among the local record and both remote records.
C32_ConcurrentMergesKeepWinner ==
    [][syncStrategy = "version"
        => /\ VersionOf(store'["A"]) >= VersionOf(store["A"])
           /\ (\A r \in Runs : runs'[r].pc = "done")
               => VersionOf(store'["A"]) >= HighestGiven']_vars

-----------------------------------------------------------------------------
(* The claim about lastSyncTime under overlapping sync() calls.             *)

\* C33: over any interleaving of manual and timer-triggered sync() calls,
\* each assignment to lastSyncTime is greater than or equal to the value it
\* replaces.
C33_LastSyncTimeMonotone ==
    [][lastSyncTime'["A"] >= lastSyncTime["A"]]_vars

-----------------------------------------------------------------------------
(* RelinkSpec: the engine of replica A over its PeerJS transport.  The      *)
(* transport loses its server connection and reconnects, the listeners of   *)
(* setupPeerHandlers run within the transport's emit, and sync() is called  *)
(* by hand.                                                                 *)

RelinkFrame ==
    UNCHANGED <<now, store, syncStrategy, mergeVars, writeCount, net, discVars,
                adapterVars, chanVars, tearVars, registryVars, createVars,
                sourceVars, handlerLog, raceVars, connections>>

\* The transport emits 'disconnect': the store's listener clears isConnected
\* and dispatches 'disconnect'.
LinkLost ==
    /\ peerDisconnected
    /\ isConnected' = FALSE
    /\ Out("disconnect", <<"disconnect">>, <<>>, NoCycle)
    /\ UNCHANGED <<peerInit, openConns, syncTimer, syncVars>>
    /\ RelinkFrame

\* A reconnection attempt succeeds and the transport emits 'open': the
\* store's listener dispatches 'open'.
LinkRestored ==
    /\ peerOpened
    /\ Out("open", <<"open">>, <<>>, NoCycle)
    /\ UNCHANGED <<netVars, syncVars>>
    /\ RelinkFrame

\* A peer connects to the transport, open or not: the store dispatches
\* 'connection'.
LinkConnection ==
    /\ link = "open"
    /\ ConnectionOpened

RelinkNext ==
    \/ LinkLost
    \/ LinkRestored
    \/ LinkConnection
    \/ TimerFired
    \/ AttemptTimedOut
    \/ SyncCall
    \/ SyncFinish

RelinkSpec == LoadedInit /\ [][RelinkNext]_vars

\* C34: when the transport has reconnected after a disconnect, the engine's
\* isConnected is true again, so that sync() runs a cycle and net.broadcast
\* returns what the transport's broadcast returns.
C34_ReconnectRestoresConnected ==
    link = "open"
    => /\ isConnected
       /\ netBroadcast("sync", <<>>).returned = openConns

-----------------------------------------------------------------------------
(* The claim about the responses of the sync protocol.                      *)

-----------------------------------------------------------------------------
(* StartupSpec: an engine with the universal adapter and discovery, which   *)
(* AuroraDB.create has returned once the store was open, while              *)
(* initializePeer is still under way; destroy() may be called at any time.  *)

StartupFrame ==
    UNCHANGED <<now, store, syncStrategy, mergeVars, openConns, syncVars,
                writeCount, net, discVars, chanVars, tearVars, restVars>>

\* initializePeer: peer.connect() resolves, which it does not once
\* peer.destroy() has been called; isConnected is set and startDiscovery()
\* is called and awaited.
ConnectResolved ==
    /\ peerInit = "connecting"
    /\ destroyPc \in {"idle", "discovery"}
    /\ peerInit' = "starting"
    /\ isConnected' = TRUE
    /\ Out("connect", <<"open">>, <<>>, NoCycle)
    /\ UNCHANGED <<syncTimer, adapterVars>>
    /\ StartupFrame

\* initializePeer: startDiscovery() resolves, whichever connect() failed,
\* and startAutoSync() is called when autoSync is set.
StartupFinished ==
    /\ peerInit = "starting"
    /\ \E failing \in SUBSET DiscoveryMethods :
          LET r == connectEach(AdapterOrder, failing, Started(<<>>, adaptersUp))
          IN /\ selected' = AdapterOrder
             /\ adapterCalls' = r.calls
             /\ adaptersUp' = r.up
             /\ raised' = r.raised
    /\ peerInit' = "done"
    /\ syncTimer' = IF autoSync THEN TRUE ELSE syncTimer
    /\ Out("start-discovery", <<>>, <<>>, NoCycle)
    /\ UNCHANGED isConnected
    /\ StartupFrame

StartupInit ==
    /\ now = 1
    /\ EngineInit
    /\ ExtIdle
    /\ store = [r \in Replicas |->
                  [EmptyStore EXCEPT !["a"] = [payload |-> PA, ts |-> 1, ver |-> 1]]]

StartupNext ==
    \/ ConnectResolved
    \/ StartupFinished
    \/ DestroyCall
    \/ DiscoveryStopped
    \/ TransportDestroyed
    \/ TimerFire
    \/ SyncFinish

StartupSpec == StartupInit /\ [][StartupNext]_vars

\* C36: once destroy() has completed no auto-sync timer is active and the
\* timer starts no sync cycle, also when destroy() was called while
\* initializePeer was still under way.
C36_NoTimerAfterDestroy ==
    destroyPc = "done" => (~syncTimer /\ lastOp # "timer")

-----------------------------------------------------------------------------
(* The claim about discovery events for connected peers.                    *)

\* C37: a discovery event for a peer to which the transport holds an open
\* connection starts no connection attempt: connectionAttempts,
\* connectionsAttempted and the attempts under way stay as they were.
C37_ConnectedPeerNotAttempted ==
    [][(Handled("discovered") /\ sighting'.peerId \in connections)
        => /\ connectCalls' = <<>>
           /\ attempts' = attempts
           /\ stats'.connectionsAttempted = stats.connectionsAttempted
           /\ peerRegistry'[sighting'.peerId].connectionAttempts =
                 peerRegistry[sighting'.peerId].connectionAttempts]_vars

-----------------------------------------------------------------------------
(* The claim about the discovery statistics.                                *)

\* The peers the registry holds a descriptor for, and the sum of their
\* connectionAttempts.
Descriptors(reg) == {p \in PeerIds : Known(reg, p)}

RECURSIVE SumAttempts(_, _)
SumAttempts(reg, ps) ==
    IF ps = {} THEN 0
    ELSE LET p == CHOOSE q \in ps : TRUE
         IN reg[p].connectionAttempts + SumAttempts(reg, ps \ {p})

\* C38: in every reachable state connectionsSuccessful <=
\* connectionsAttempted <= 3 * (number of descriptors), connectionsAttempted
\* is the sum of connectionAttempts over the descriptors, and the number of
\* descriptors is at most peersDiscovered.
C38_StatsConsistent ==
    /\ stats.connectionsSuccessful <= stats.connectionsAttempted
    /\ stats.connectionsAttempted <= 3 * Cardinality(Descriptors(peerRegistry))
    /\ stats.connectionsAttempted =
          SumAttempts(peerRegistry, Descriptors(peerRegistry))
    /\ Cardinality(Descriptors(peerRegistry)) <= stats.peersDiscovered

\* Two peers are known, one with three attempts and one with one, and two
\* attempts have succeeded.
C38_Witness ==
    /\ Cardinality(Descriptors(peerRegistry)) = 2
    /\ \E p \in PeerIds :
          Known(peerRegistry, p) /\ peerRegistry[p].connectionAttempts = 3
    /\ stats.connectionsAttempted = 4
    /\ stats.connectionsSuccessful = 2
    /\ stats.peersDiscovered = 4

-----------------------------------------------------------------------------
(* The claim about sync() on an engine that is not connected.               *)

\* C39: sync() called while the engine is not connected has no effect: it
\* starts no scan, issues no broadcast, sends no message, leaves
\* lastSyncTime as it was and dispatches no 'sync' event, and a manual call
\* fails with an error; net.broadcast on an engine that is not connected
\* returns 0.
C39_SyncNeedsConnection ==
    [][/\ ((Handled("sync") \/ Handled("timer")) /\ ~isConnected)
          => /\ broadcasts' = <<>>
             /\ events' = <<>>
             /\ finished' = NoCycle
             /\ UNCHANGED <<cycles, lastSyncTime, net, store>>
             /\ lastOp' = "sync" => raised'
       /\ ~isConnected' => netBroadcast("sync", <<>>)'.returned = 0]_vars

\* sync() is called and fails on an engine that has lost its transport
\* after a cycle of its own had ended, while a peer connection is open.
C39_Witness ==
    /\ lastOp = "sync"
    /\ raised
    /\ ~isConnected
    /\ peerInit = "done"
    /\ openConns > 0
    /\ lastSyncTime["A"] > 0
    /\ cycles = <<>>

====
